---- MODULE Spec2Model ----
(***************************************************************************)
(* Model of the pyCGM computation engine (src/pycgm/pyCGM.py): the         *)
(* pipeline registry (add_function / modify_function), the per-frame       *)
(* evaluator calc, the sequential runner run and the parallel dispatcher   *)
(* multi_run with its worker processes and shared result buffers.          *)
(*                                                                         *)
(* Python values are encoded as follows.  None is NoneSlice for a slice,   *)
(* NoneIndex for an index, NoneValue for a measurement value and NoneNames *)
(* for an optional list of names.  A dict is a sequence of <<key, value>>  *)
(* pairs in insertion order, or a TLA+ function when only lookups matter.  *)
(* Indices are 0-based as in the source; TLA+ sequences are 1-based, so    *)
(* list[i] is written seq[i + 1].                                          *)
(***************************************************************************)
EXTENDS Integers, Sequences, FiniteSets, TLC

VARIABLES
    klass, measurements, marker_data, marker_keys, marker_mapping,
    num_frames, num_axes, num_axis_floats_per_frame, axis_results_shape,
    num_angles, num_angle_floats_per_frame, angle_results_shape,
    axis_keys, angle_keys, axis_mapping, angle_mapping,
    axis_funcs, angle_funcs, axis_func_mapping, angle_func_mapping,
    axis_result_mapping, angle_result_mapping,
    axis_func_parameters, angle_func_parameters,
    axes, angles,
    mr_pc, nprocs, processes, frame_index_offset, shared_axes, shared_angles,
    joined, config_calls, lastop, lastcall, calc_trace, fresh,
    subject_list, p_pc, p_procs, p_shared, p_last

\* the pipeline and the registries of one model object
cfgvars ==
    << num_frames, num_axes, num_axis_floats_per_frame, axis_results_shape,
       num_angles, num_angle_floats_per_frame, angle_results_shape,
       axis_keys, angle_keys, axis_mapping, angle_mapping,
       axis_funcs, angle_funcs, axis_func_mapping, angle_func_mapping,
       axis_result_mapping, angle_result_mapping,
       axis_func_parameters, angle_func_parameters >>

datavars == << klass, measurements, marker_data, marker_keys, marker_mapping >>

resultvars == << axes, angles >>

mrvars == << mr_pc, nprocs, processes, frame_index_offset, joined,
             shared_axes, shared_angles, fresh >>

\* the objects of the pelvis-only prototype (bak_pyCGM_slices.py): the
\* subjects handed to a SubjectManager, and the processes and the shared
\* buffer of the multi_run under way on them
protovars == << subject_list, p_pc, p_procs, p_shared, p_last >>

vars == << cfgvars, datavars, resultvars, mrvars,
           config_calls, lastop, lastcall, calc_trace, protovars >>

----------------------------------------------------------------------------
\* Bounds of the model

\* largest number of frames of a dynamic trial
MaxFrames == 2

\* largest worker count handed to multi_run
MaxCores == 3

\* largest number of add_function / modify_function calls in one behaviour
MaxConfigCalls == 1

----------------------------------------------------------------------------
\* Program constants

\* floats of one flattened 4x4 axis
AxisFloats == 16

\* floats of one flattened angle
AngleFloats == 3

NoneSlice == << >>
NoneIndex == -1
NoneValue == -1
NoneNames == [none |-> TRUE, names |-> << >>]

Names(s) == [none |-> FALSE, names |-> s]

----------------------------------------------------------------------------
\* Generic helpers for Python lists and dicts

Range(s) == {s[i] : i \in DOMAIN s}

RECURSIVE SumSeq(_)
SumSeq(s) == IF s = << >> THEN 0 ELSE s[1] + SumSeq(Tail(s))

RECURSIVE Concat(_)
\* itertools.chain(*lists)
Concat(ss) == IF ss = << >> THEN << >> ELSE ss[1] \o Concat(Tail(ss))

\* largest 0-based position of x in s: the value a dict comprehension
\* {x: index for index, x in enumerate(s)} keeps for x
LastIndex(s, x) == (CHOOSE i \in DOMAIN s :
                        s[i] = x /\ \A j \in DOMAIN s : s[j] = x => j <= i) - 1

\* {x: index for index, x in enumerate(s)}
EnumerateMapping(s) == [x \in Range(s) |-> LastIndex(s, x)]

DictKeys(d) == {d[i][1] : i \in DOMAIN d}

DictValues(d) == [i \in DOMAIN d |-> d[i][2]]

\* list[index] = value
ListSetAppending(list, index, value) == Append(list, value)

ListSet(list, index, value) == [list EXCEPT ![index + 1] = value]

\* d[k] = v on an insertion-ordered dict: an existing key keeps its place
DictSet(d, k, v) ==
    IF k \in DictKeys(d)
    THEN [i \in DOMAIN d |-> IF d[i][1] = k THEN <<k, v>> ELSE d[i]]
    ELSE Append(d, <<k, v>>)

----------------------------------------------------------------------------
\* Defaults set up by the constructor

\* a key list that names Hip before the two hip joint centres
default_axis_keysMisordered ==
    << "Pelvis", "Hip", "RHipJC", "LHipJC", "RKnee", "LKnee", "RAnkle",
       "LAnkle", "RFoot", "LFoot", "Head", "Thorax", "RWand", "LWand",
       "RClavJC", "LClavJC", "RClav", "LClav", "RHum", "LHum", "RWristJC",
       "LWristJC", "RRad", "LRad", "RHand", "LHand" >>

default_axis_keys ==
    << "Pelvis", "RHipJC", "LHipJC", "Hip", "RKnee", "LKnee", "RAnkle",
       "LAnkle", "RFoot", "LFoot", "Head", "Thorax", "RWand", "LWand",
       "RClavJC", "LClavJC", "RClav", "LClav", "RHum", "LHum", "RWristJC",
       "LWristJC", "RRad", "LRad", "RHand", "LHand" >>

default_angle_keys ==
    << "Pelvis", "RHip", "LHip", "RKnee", "LKnee", "RAnkle", "LAnkle",
       "RFoot", "LFoot", "Head", "Thorax", "Neck", "Spine", "RShoulder",
       "LShoulder", "RElbow", "LElbow", "RWrist", "LWrist" >>

\* keys are function names (strings): key <<"str", name>>
DefaultAxisResultMapping ==
    << << <<"str", "pelvis_axis">>, <<"Pelvis">> >>,
       << <<"str", "hip_joint_center">>, <<"RHipJC", "LHipJC">> >>,
       << <<"str", "hip_axis">>, <<"Hip">> >>,
       << <<"str", "knee_axis">>, <<"RKnee", "LKnee">> >>,
       << <<"str", "ankle_axis">>, <<"RAnkle", "LAnkle">> >>,
       << <<"str", "foot_axis">>, <<"RFoot", "LFoot">> >>,
       << <<"str", "head_axis">>, <<"Head">> >>,
       << <<"str", "thorax_axis">>, <<"Thorax">> >>,
       << <<"str", "wand_marker">>, <<"RWand", "LWand">> >>,
       << <<"str", "clav_joint_center">>, <<"RClavJC", "LClavJC">> >>,
       << <<"str", "clav_axis">>, <<"RClav", "LClav">> >>,
       << <<"str", "hum_axis">>, <<"RHum", "LHum", "RWristJC", "LWristJC">> >>,
       << <<"str", "rad_axis">>, <<"RRad", "LRad">> >>,
       << <<"str", "hand_axis">>, <<"RHand", "LHand">> >> >>

DefaultAngleResultMapping ==
    << << <<"str", "pelvis_angle">>, <<"Pelvis">> >>,
       << <<"str", "hip_angle">>, <<"RHip", "LHip">> >>,
       << <<"str", "knee_angle">>, <<"RKnee", "LKnee">> >>,
       << <<"str", "ankle_angle">>, <<"RAnkle", "LAnkle">> >>,
       << <<"str", "foot_angle">>, <<"RFoot", "LFoot">> >>,
       << <<"str", "head_angle">>, <<"Head">> >>,
       << <<"str", "thorax_angle">>, <<"Thorax">> >>,
       << <<"str", "neck_angle">>, <<"Neck">> >>,
       << <<"str", "spine_angle">>, <<"Spine">> >>,
       << <<"str", "shoulder_angle">>, <<"RShoulder", "LShoulder">> >>,
       << <<"str", "elbow_angle">>, <<"RElbow", "LElbow">> >>,
       << <<"str", "wrist_angle">>, <<"RWrist", "LWrist">> >> >>

\* default required parameters of the axis functions, by name
DefaultAxisFuncParameters ==
  <<
     \* pelvis_axis (lines 110-116)
     << <<"Marker", "RASI">>, <<"Marker", "LASI">>, <<"Marker", "RPSI">>,
        <<"Marker", "LPSI">>, <<"Marker", "SACR">> >>,
     \* hip_joint_center (lines 119-127)
     << <<"Axis", "Pelvis">>, <<"Measurement", "MeanLegLength">>,
        <<"Measurement", "R_AsisToTrocanterMeasure">>,
        <<"Measurement", "L_AsisToTrocanterMeasure">>,
        <<"Measurement", "InterAsisDistance">> >>,
     \* hip_axis (lines 130-134)
     << <<"Axis", "RHipJC">>, <<"Axis", "LHipJC">>, <<"Axis", "Pelvis">> >>,
     \* knee_axis (lines 137-146)
     << <<"Marker", "RTHI">>, <<"Marker", "LTHI">>, <<"Marker", "RKNE">>,
        <<"Marker", "LKNE">>, <<"Axis", "RHipJC">>, <<"Axis", "LHipJC">>,
        <<"Measurement", "RightKneeWidth">>,
        <<"Measurement", "LeftKneeWidth">> >>,
     \* ankle_axis (lines 149-160)
     << <<"Marker", "RTIB">>, <<"Marker", "LTIB">>, <<"Marker", "RANK">>,
        <<"Marker", "LANK">>, <<"Axis", "RKnee">>, <<"Axis", "LKnee">>,
        <<"Measurement", "RightAnkleWidth">>,
        <<"Measurement", "LeftAnkleWidth">>,
        <<"Measurement", "RightTibialTorsion">>,
        <<"Measurement", "LeftTibialTorsion">> >>,
     \* foot_axis (lines 163-174)
     << <<"Marker", "RTOE">>, <<"Marker", "LTOE">>, <<"Axis", "RAnkle">>,
        <<"Axis", "LAnkle">>, <<"Measurement", "RightStaticRotOff">>,
        <<"Measurement", "LeftStaticRotOff">>,
        <<"Measurement", "RightStaticPlantFlex">>,
        <<"Measurement", "LeftStaticPlantFlex">> >>,
     \* head_axis (lines 177-182)
     << <<"Marker", "LFHD">>, <<"Marker", "RFHD">>, <<"Marker", "LBHD">>,
        <<"Marker", "RBHD">> >>,
     \* thorax_axis (lines 185-190)
     << <<"Marker", "CLAV">>, <<"Marker", "C7">>, <<"Marker", "STRN">>,
        <<"Marker", "T10">> >>,
     \* wand_marker (lines 193-197)
     << <<"Marker", "RSHO">>, <<"Marker", "LSHO">>, <<"Axis", "Thorax">> >>,
     \* clav_joint_center (lines 200-209)
     << <<"Marker", "RSHO">>, <<"Marker", "LSHO">>, <<"Axis", "Thorax">>,
        <<"Axis", "RWand">>, <<"Axis", "LWand">>,
        <<"Measurement", "RightShoulderOffset">>,
        <<"Measurement", "LeftShoulderOffset">> >>,
     \* clav_axis (lines 213-219)
     << <<"Axis", "Thorax">>, <<"Axis", "RClavJC">>, <<"Axis", "LClavJC">>,
        <<"Axis", "RWand">>, <<"Axis", "LWand">> >>,
     \* hum_axis (lines 222-236)
     << <<"Marker", "RELB">>, <<"Marker", "LELB">>, <<"Marker", "RWRA">>,
        <<"Marker", "RWRB">>, <<"Marker", "LWRA">>, <<"Marker", "LWRB">>,
        <<"Axis", "RClav">>, <<"Axis", "LClav">>,
        <<"Measurement", "RightElbowWidth">>,
        <<"Measurement", "LeftElbowWidth">>,
        <<"Measurement", "RightWristWidth">>,
        <<"Measurement", "LeftWristWidth">>, <<"Literal", "7.0">> >>,
     \* rad_axis (lines 239-244)
     << <<"Axis", "RHum">>, <<"Axis", "LHum">>, <<"Axis", "RWristJC">>,
        <<"Axis", "LWristJC">> >>,
     \* hand_axis (lines 247-258)
     << <<"Marker", "RWRA">>, <<"Marker", "RWRB">>, <<"Marker", "LWRA">>,
        <<"Marker", "LWRB">>, <<"Marker", "RFIN">>, <<"Marker", "LFIN">>,
        <<"Axis", "RWristJC">>, <<"Axis", "LWristJC">>,
        <<"Measurement", "RightHandThickness">>,
        <<"Measurement", "LeftHandThickness">> >>
  >>

\* default required parameters of the angle functions, by name
DefaultAngleFuncParameters ==
  <<
     \* pelvis_angle (lines 264-267)
     << <<"Measurement", "GCS">>, <<"Axis", "Pelvis">> >>,
     \* hip_angle (lines 270-275)
     << <<"Axis", "Hip">>, <<"Axis", "RKnee">>, <<"Axis", "Hip">>,
        <<"Axis", "LKnee">> >>,
     \* knee_angle (lines 278-283)
     << <<"Axis", "RKnee">>, <<"Axis", "RAnkle">>, <<"Axis", "LKnee">>,
        <<"Axis", "LAnkle">> >>,
     \* ankle_angle (lines 286-291)
     << <<"Axis", "RAnkle">>, <<"Axis", "RFoot">>, <<"Axis", "LAnkle">>,
        <<"Axis", "LFoot">> >>,
     \* foot_angle (lines 294-299)
     << <<"Measurement", "GCS">>, <<"Axis", "RFoot">>,
        <<"Measurement", "GCS">>, <<"Axis", "LFoot">> >>,
     \* head_angle (lines 302-305)
     << <<"Measurement", "GCS">>, <<"Axis", "Head">> >>,
     \* thorax_angle (lines 308-311)
     << <<"Measurement", "GCS">>, <<"Axis", "Thorax">> >>,
     \* neck_angle (lines 314-317)
     << <<"Axis", "Head">>, <<"Axis", "Thorax">> >>,
     \* spine_angle (lines 320-323)
     << <<"Axis", "Pelvis">>, <<"Axis", "Thorax">> >>,
     \* shoulder_angle (lines 326-331)
     << <<"Axis", "Thorax">>, <<"Axis", "RHum">>, <<"Axis", "Thorax">>,
        <<"Axis", "LHum">> >>,
     \* elbow_angle (lines 334-339)
     << <<"Axis", "RHum">>, <<"Axis", "RRad">>, <<"Axis", "LHum">>,
        <<"Axis", "LRad">> >>,
     \* wrist_angle (lines 342-347)
     << <<"Axis", "RRad">>, <<"Axis", "RHand">>, <<"Axis", "LRad">>,
        <<"Axis", "LHand">> >>
  >>

----------------------------------------------------------------------------
\* Inputs of the constructor and the collaborators outside the engine

\* marker names of the dynamic trial, in the order of dynamic_trial[0].keys()
MarkerKeyLists ==
    { <<"RASI", "LASI", "RPSI", "LPSI">>,
      <<"RASI", "LASI", "SACR">> }

\* the flat [xyzxyz...] row of frame f (1-based) of a trial with n markers
FrameRow(f, n) == [j \in 1..(3 * n) |-> 100 * f + j]

\* names of the calibrated measurements static.getStatic returns
MeasurementNames ==
    << "MeanLegLength", "R_AsisToTrocanterMeasure", "L_AsisToTrocanterMeasure",
       "InterAsisDistance", "RightKneeWidth", "LeftKneeWidth",
       "RightAnkleWidth", "LeftAnkleWidth", "RightTibialTorsion",
       "LeftTibialTorsion", "RightStaticRotOff", "LeftStaticRotOff",
       "RightStaticPlantFlex", "LeftStaticPlantFlex", "RightShoulderOffset",
       "LeftShoulderOffset", "RightElbowWidth", "LeftElbowWidth",
       "RightWristWidth", "LeftWristWidth", "RightHandThickness",
       "LeftHandThickness", "GCS" >>

StaticMeasurements ==
    [n \in Range(MeasurementNames) |-> 10 + LastIndex(MeasurementNames, n)]

\* names of the methods the model's class defines itself (hasattr(self, name))
SelfMethods == {"pelvis_axis", "hip_angle", "custom_axis", "custom_angle"}

\* a function object: its __name__ and where it is defined
Func(name, owner) == [name |-> name, owner |-> owner]

\* CalcAxes().funcs / CalcAngles().funcs: one function per default entry
CalcAxesFuncs ==
    [i \in DOMAIN DefaultAxisResultMapping |->
        Func(DefaultAxisResultMapping[i][1][2], "pycgm_calc")]

CalcAnglesFuncs ==
    [i \in DOMAIN DefaultAngleResultMapping |->
        Func(DefaultAngleResultMapping[i][1][2], "pycgm_calc")]

\* the class of the model object: a subclass of pyCGM that defines the
\* methods of SelfMethods.  In "self" each method returns what the default
\* of its name returns; in "self_stacked" pelvis_axis returns a stack of
\* two axes
Subclasses == {"self", "self_stacked"}

\* getattr(self, name): the method bound to the object
GetAttr(name) == Func(name, klass)

\* shape of what a function returns: a stack of n results or a single one.
\* A default function, and a method of the same name, returns one result per
\* declared default output name; any other function returns a single result.
DefaultReturns ==
    LET d == DefaultAxisResultMapping \o DefaultAngleResultMapping
    IN [name \in {d[i][1][2] : i \in DOMAIN d} |->
          LET i == CHOOSE j \in DOMAIN d : d[j][1][2] = name
          IN [stack |-> Len(d[i][2]) > 1, n |-> Len(d[i][2])]]

Returns(func) ==
    IF func.owner = "self_stacked" /\ func.name = "pelvis_axis"
    THEN [stack |-> TRUE, n |-> 2]
    ELSE IF func.name \in DOMAIN DefaultReturns THEN DefaultReturns[func.name]
    ELSE [stack |-> FALSE, n |-> 1]

AllFuncNames ==
    [i \in DOMAIN DefaultAxisResultMapping |-> DefaultAxisResultMapping[i][1][2]]
    \o [i \in DOMAIN DefaultAngleResultMapping |-> DefaultAngleResultMapping[i][1][2]]
    \o <<"custom_axis", "custom_angle">>

FuncNumber == EnumerateMapping(AllFuncNames)

FuncCode(func) ==
    (IF func.name \in DOMAIN FuncNumber THEN FuncNumber[func.name] + 1 ELSE 0)
    + (CASE func.owner = "pycgm_calc" -> 0
         [] func.owner = "self" -> 40
         [] func.owner = "self_stacked" -> 120
         [] OTHER -> 80)

\* one argument handed to a geometry function
Arg(t, v) == [t |-> t, v |-> v]

ArgCode(a) ==
    CASE a.t = "vec" -> 1 + a.v[1] + 2 * a.v[2] + 3 * a.v[3]
      [] a.t = "row" -> 2 + SumSeq(a.v)
      [] a.t = "num" -> 4 + a.v[1]
      [] a.t = "mat" -> 5 + a.v[1]
      [] a.t = "ang" -> 6 + a.v[1]
      [] OTHER -> 8 + a.v[1]

RECURSIVE ArgsCode(_, _)
ArgsCode(args, i) ==
    IF i > Len(args) THEN 0
    ELSE (i + 1) * ArgCode(args[i]) + ArgsCode(args, i + 1)

\* the geometry functions are outside the engine: the k-th result of
\* func(*args) is a value determined by the function, the arguments in
\* their order, and k; Results lists the first n of them
Results(func, args, n) ==
    LET base == FuncCode(func) * 7 + ArgsCode(args, 1)
    IN [k \in 1..n |-> (base + k * 3) % 251]

\* a 4x4 axis, flattened; never all zero
Matrix(d) == [j \in 1..AxisFloats |-> d * AxisFloats + j]

\* a 3-component angle, flattened; never all zero
Vector(d) == [j \in 1..AngleFloats |-> d * AngleFloats + j]

----------------------------------------------------------------------------
\* Lookups

marker_slice(marker_name) ==
    IF marker_name \in DOMAIN marker_mapping
    THEN marker_mapping[marker_name] ELSE NoneSlice

measurement_value(measurement_name) ==
    IF measurement_name \in DOMAIN measurements
    THEN measurements[measurement_name] ELSE NoneValue

\* a lookup that gives the first index for a name it does not have
axis_indexOrZero(axis_name) ==
    IF axis_name \in DOMAIN axis_mapping
    THEN axis_mapping[axis_name] ELSE 0

axis_index(axis_name) ==
    IF axis_name \in DOMAIN axis_mapping
    THEN axis_mapping[axis_name] ELSE NoneIndex

angle_index(angle_name) ==
    IF angle_name \in DOMAIN angle_mapping
    THEN angle_mapping[angle_name] ELSE NoneIndex

\* the parameter wrapper objects Marker, Measurement, Axis, Angle; a
\* parameter that is none of them is a literal
Param(t, v) == [t |-> t, v |-> v]

Marker(slice) == Param("Marker", slice)

\* a wrapper that keeps no value
MeasurementUnbound(value) == Param("Measurement", <<NoneValue>>)

Measurement(value) == Param("Measurement", <<value>>)

Axis(index) == Param("Axis", <<index>>)

Angle(index) == Param("Angle", <<index>>)

\* one entry of the constructor's default parameter tables
DefaultParam(p) ==
    CASE p[1] = "Marker" -> Marker(marker_slice(p[2]))
      [] p[1] = "Measurement" -> Measurement(measurement_value(p[2]))
      [] p[1] = "Axis" -> Axis(axis_index(p[2]))
      [] p[1] = "Angle" -> Angle(angle_index(p[2]))
      [] OTHER -> Param("Literal", <<7>>)

\* the result attributes before the first run
Unset == [set |-> FALSE, keys |-> << >>, rows |-> << >>]

NoCall == [op |-> "none"]

----------------------------------------------------------------------------
\* __init__

\* dynamic_trial[0].keys() raises IndexError for a trial without frames:
\* the constructor does not return and no model object exists.  The state
\* then keeps the trial and, as placeholders, what the constructor would
\* have set; no operation is enabled in it
Constructed == lastop # [op |-> "init", outcome |-> "raise"]

Init ==
    /\ klass \in Subclasses
    /\ measurements = StaticMeasurements
    /\ \E n \in 0..MaxFrames :
          /\ marker_keys \in (IF n = 0 THEN {<< >>} ELSE MarkerKeyLists)
          /\ marker_data = [f \in 1..n |-> FrameRow(f, Len(marker_keys))]
          /\ lastop = [op |-> "init",
                       outcome |-> IF n = 0 THEN "raise" ELSE "ok"]
    /\ marker_mapping =
          [k \in Range(marker_keys) |->
              << LastIndex(marker_keys, k) * 3, LastIndex(marker_keys, k) * 3 + 3 >>]
    /\ num_frames = Len(marker_data)
    /\ num_axes = Len(default_axis_keys)
    /\ num_axis_floats_per_frame = num_axes * AxisFloats
    /\ axis_results_shape = << num_frames, num_axes, 4, 4 >>
    /\ num_angles = Len(default_angle_keys)
    /\ num_angle_floats_per_frame = num_angles * AngleFloats
    /\ angle_results_shape = << num_frames, num_angles, 3 >>
    /\ axis_keys = default_axis_keys
    /\ angle_keys = default_angle_keys
    /\ axis_mapping = EnumerateMapping(axis_keys)
    /\ angle_mapping = EnumerateMapping(angle_keys)
    /\ axis_funcs =
          [i \in DOMAIN CalcAxesFuncs |->
              IF CalcAxesFuncs[i].name \notin SelfMethods
              THEN CalcAxesFuncs[i] ELSE GetAttr(CalcAxesFuncs[i].name)]
    /\ angle_funcs =
          [i \in DOMAIN CalcAnglesFuncs |->
              IF CalcAnglesFuncs[i].name \notin SelfMethods
              THEN CalcAnglesFuncs[i] ELSE GetAttr(CalcAnglesFuncs[i].name)]
    /\ axis_func_mapping =
          EnumerateMapping([i \in DOMAIN axis_funcs |-> axis_funcs[i].name])
    /\ angle_func_mapping =
          EnumerateMapping([i \in DOMAIN angle_funcs |-> angle_funcs[i].name])
    /\ axis_result_mapping = DefaultAxisResultMapping
    /\ angle_result_mapping = DefaultAngleResultMapping
    /\ axis_func_parameters =
          [i \in DOMAIN DefaultAxisFuncParameters |->
              [j \in DOMAIN DefaultAxisFuncParameters[i] |->
                  DefaultParam(DefaultAxisFuncParameters[i][j])]]
    /\ angle_func_parameters =
          [i \in DOMAIN DefaultAngleFuncParameters |->
              [j \in DOMAIN DefaultAngleFuncParameters[i] |->
                  DefaultParam(DefaultAngleFuncParameters[i][j])]]
    /\ axes = Unset
    /\ angles = Unset
    /\ mr_pc = "idle"
    /\ nprocs = 0
    /\ processes = << >>
    /\ frame_index_offset = 0
    /\ joined = 0
    /\ shared_axes = << >>
    /\ shared_angles = << >>
    /\ config_calls = 0
    /\ lastcall = NoCall
    /\ calc_trace = << >>
    /\ fresh = FALSE
    /\ subject_list = << >>
    /\ p_pc = "idle"
    /\ p_procs = << >>
    /\ p_shared = << >>
    /\ p_last = NoCall

----------------------------------------------------------------------------
\* calc: the evaluation of one frame

\* frame[param.slice]; frame[None] is numpy's new-axis index, which gives
\* the whole frame row as a 1 x N array
FrameSlice(frame, slice) ==
    IF slice = NoneSlice THEN Arg("row", frame)
    ELSE Arg("vec", SubSeq(frame, slice[1] + 1, slice[2]))

\* axis_results[param.index] raises for a None index and for an index that
\* is not yet in the list
AxisIndexRaises(param, axis_results) ==
    /\ param.t = "Axis"
    /\ (param.v[1] = NoneIndex \/ param.v[1] >= Len(axis_results))

\* the isinstance chain of the parameter loops (the same in the axis loop
\* and in the angle loop): Marker, Measurement, Axis, else the parameter
\* itself
ResolveParam(param, frame, axis_results, angle_results) ==
    CASE param.t = "Marker" -> FrameSlice(frame, param.v)
      [] param.t = "Measurement" -> Arg("num", param.v)
      [] param.t = "Axis" -> Arg("mat", axis_results[param.v[1] + 1])
      [] param.t = "Angle" -> Arg("Angle object", param.v)
      [] OTHER -> Arg("num", param.v)

ParamsRaise(params, axis_results) ==
    \E i \in DOMAIN params : AxisIndexRaises(params[i], axis_results)

ResolveParams(params, frame, axis_results, angle_results) ==
    [i \in DOMAIN params |->
        ResolveParam(params[i], frame, axis_results, angle_results)]

\* np.asarray(func(*axis_params)) followed by the ndim == 3 test
AxisReturn(func, args) ==
    LET ret_axes == Results(func, args, Returns(func).n)
    IN IF Returns(func).stack
       THEN [k \in DOMAIN ret_axes |-> Matrix(ret_axes[k])]
       ELSE << Matrix(ret_axes[1]) >>

\* np.asarray(func(*angle_params)) followed by the ndim == 2 test
AngleReturn(func, args) ==
    LET ret_angles == Results(func, args, Returns(func).n)
    IN IF Returns(func).stack
       THEN [k \in DOMAIN ret_angles |-> Vector(ret_angles[k])]
       ELSE << Vector(ret_angles[1]) >>

\* a calc whose result lists are not empty when it starts
CalcStartStale ==
    [ok |-> TRUE, axis_results |-> << Matrix(0) >>, angle_results |-> << >>,
     trace |-> << >>]

\* the locals of one calc call; trace lists the functions invoked so far
CalcStart ==
    [ok |-> TRUE, axis_results |-> << >>, angle_results |-> << >>,
     trace |-> << >>]

Invoked(kind, index, func, args) ==
    [kind |-> kind, index |-> index, func |-> func, args |-> args]

RECURSIVE AxisLoop(_, _, _)
\* run axis functions in sequence
AxisLoop(frame, index, st) ==
    IF ~st.ok \/ index >= Len(axis_funcs) THEN st
    ELSE LET params == axis_func_parameters[index + 1]
             func == axis_funcs[index + 1]
         IN IF ParamsRaise(params, st.axis_results)
            THEN [st EXCEPT !.ok = FALSE]
            ELSE LET args == ResolveParams(params, frame, st.axis_results,
                                           st.angle_results)
                 IN AxisLoop(frame, index + 1,
                        [st EXCEPT
                           !.axis_results = @ \o AxisReturn(func, args),
                           !.trace = Append(@, Invoked("axis", index, func, args))])

RECURSIVE AngleLoop(_, _, _)
\* run angle functions in sequence
AngleLoop(frame, index, st) ==
    IF ~st.ok \/ index >= Len(angle_funcs) THEN st
    ELSE LET params == angle_func_parameters[index + 1]
             func == angle_funcs[index + 1]
         IN IF ParamsRaise(params, st.axis_results)
            THEN [st EXCEPT !.ok = FALSE]
            ELSE LET args == ResolveParams(params, frame, st.axis_results,
                                           st.angle_results)
                 IN AngleLoop(frame, index + 1,
                        [st EXCEPT
                           !.angle_results = @ \o AngleReturn(func, args),
                           !.trace = Append(@, Invoked("angle", index, func, args))])

\* a calc whose angle loop starts at the second entry
calcSkippingFirstAngle(frame) == AngleLoop(frame, 1, AxisLoop(frame, 0, CalcStart))

calc(frame) == AngleLoop(frame, 0, AxisLoop(frame, 0, CalcStart))

----------------------------------------------------------------------------
\* Structuring of flat results

\* the field names of a structured dtype must be distinct
DtypeRaises(keys) == \E i, j \in DOMAIN keys : i # j /\ keys[i] = keys[j]

\* flat.reshape((num_frames, n, ...)) with per floats in each of the n items
ReshapeRaises(flat, shape, per) == Len(flat) # shape[1] * shape[2] * per

Reshape(flat, shape, per) ==
    [f \in 1..shape[1] |->
        [a \in 1..shape[2] |->
            SubSeq(flat, ((f - 1) * shape[2] + (a - 1)) * per + 1,
                         ((f - 1) * shape[2] + a) * per)]]

StructureRaises(flat, mapping, shape, per) ==
    LET keys == Concat(DictValues(mapping))
    IN \/ DtypeRaises(keys)
       \/ ReshapeRaises(flat, shape, per)
       \/ shape[2] # Len(keys)

Structure(flat, mapping, shape, per) ==
    [set |-> TRUE, keys |-> Concat(DictValues(mapping)),
     rows |-> Reshape(flat, shape, per)]

structure_trial_axes_raises(axis_results) ==
    StructureRaises(axis_results, axis_result_mapping, axis_results_shape,
                    AxisFloats)

structure_trial_axes(axis_results) ==
    Structure(axis_results, axis_result_mapping, axis_results_shape, AxisFloats)

structure_trial_angles_raises(angle_results) ==
    StructureRaises(angle_results, angle_result_mapping, angle_results_shape,
                    AngleFloats)

structure_trial_angles(angle_results) ==
    Structure(angle_results, angle_result_mapping, angle_results_shape,
              AngleFloats)

----------------------------------------------------------------------------
\* run: the frame loop shared by the sequential runner and the workers

RECURSIVE FrameLoop(_, _)
\* for frame in frames: append calc(frame)[0].flatten() and
\* calc(frame)[1].flatten() to the two flat result arrays
FrameLoop(frames, acc) ==
    IF ~acc.ok \/ frames = << >> THEN acc
    ELSE LET c == calc(frames[1])
         IN IF ~c.ok THEN [acc EXCEPT !.ok = FALSE]
            ELSE FrameLoop(Tail(frames),
                    [acc EXCEPT
                       !.flat_axis_results = @ \o Concat(c.axis_results),
                       !.flat_angle_results = @ \o Concat(c.angle_results)])

\* a run() that kept the flat results of the run before it
FlatResultsKeepingOld(frames) ==
    FrameLoop(frames,
        [ok |-> TRUE,
         flat_axis_results |->
            IF axes.set THEN Concat(Concat(axes.rows)) ELSE << >>,
         flat_angle_results |->
            IF angles.set THEN Concat(Concat(angles.rows)) ELSE << >>])

FlatResults(frames) ==
    FrameLoop(frames, [ok |-> TRUE, flat_axis_results |-> << >>,
                       flat_angle_results |-> << >>])

\* the frames argument of run: None, or a block of frame rows
NoneFrames == [none |-> TRUE, rows |-> << >>]

Frames(rows) == [none |-> FALSE, rows |-> rows]

\* the frames arguments tried: none, and the leading proper sub-ranges of
\* the trial that are not empty
FrameArgs ==
    {NoneFrames} \cup
    {Frames(SubSeq(marker_data, 1, k)) : k \in 1..(num_frames - 1)}

\* run(frames) without shared buffers: single core, calculate and
\* structure; the loop is over self.marker_data whatever frames is
run(frames) ==
    /\ Constructed
    /\ mr_pc = "idle"
    /\ \E r \in {FlatResults(marker_data)} :
          IF ~r.ok \/ structure_trial_axes_raises(r.flat_axis_results)
          THEN /\ UNCHANGED resultvars
               /\ lastop' = [op |-> "run", outcome |-> "raise"]
          ELSE IF structure_trial_angles_raises(r.flat_angle_results)
          THEN /\ axes' = structure_trial_axes(r.flat_axis_results)
               /\ UNCHANGED angles
               /\ lastop' = [op |-> "run", outcome |-> "raise"]
          ELSE /\ axes' = structure_trial_axes(r.flat_axis_results)
               /\ angles' = structure_trial_angles(r.flat_angle_results)
               /\ lastop' = [op |-> "run", outcome |-> "ok"]
    /\ lastcall' = [op |-> "run", again |-> lastop.op = "run",
                     frames |-> frames]
    /\ calc_trace' = << >>
    /\ UNCHANGED << cfgvars, datavars, mrvars, config_calls >>
    /\ UNCHANGED protovars

\* a calc that zeroes the row of the frame it has evaluated
CalcFrameInPlace(f) ==
    /\ Constructed
    /\ mr_pc = "idle"
    /\ \E c \in {calc(marker_data[f])} :
          /\ calc_trace' = c.trace
          /\ lastop' = [op |-> "calc",
                        outcome |-> IF c.ok THEN "ok" ELSE "raise"]
    /\ lastcall' = [op |-> "calc", frame |-> f]
    /\ marker_data' = [marker_data EXCEPT ![f] = [j \in DOMAIN @ |-> 0]]
    /\ UNCHANGED << klass, measurements, marker_keys, marker_mapping >>
    /\ UNCHANGED << cfgvars, resultvars, mrvars, config_calls >>
    /\ UNCHANGED protovars

\* calc(frame) called on one frame of the trial
CalcFrame(f) ==
    /\ Constructed
    /\ mr_pc = "idle"
    /\ \E c \in {calc(marker_data[f])} :
          /\ calc_trace' = c.trace
          /\ lastop' = [op |-> "calc",
                        outcome |-> IF c.ok THEN "ok" ELSE "raise"]
    /\ lastcall' = [op |-> "calc", frame |-> f]
    /\ UNCHANGED << cfgvars, datavars, resultvars, mrvars, config_calls >>
    /\ UNCHANGED protovars

----------------------------------------------------------------------------
\* modify_function and add_function

\* the function argument: a name given as a string, or a callable
Str(name) == [isstr |-> TRUE, name |-> name]

Callable(name) == [isstr |-> FALSE, name |-> name]

\* the key under which the result mappings file the function argument
ResultKey(function) ==
    << IF function.isstr THEN "str" ELSE "callable", function.name >>

\* The pipeline is configured before anything is evaluated: the calls of
\* modify_function and add_function come first, then calc, run and multi_run;
\* a measurement may be changed in between
Configuring ==
    /\ Constructed
    /\ mr_pc = "idle"
    /\ \/ lastop.op \in {"init", "modify", "add"}
       \/ lastop.op = "set_measurement" /\ lastcall.configuring

\* one call; a parameter-name list that is None or empty is << >>
Call(op, function, markers, names, axis_names, angle_names, ret_axes, ret_angles) ==
    [op |-> op, function |-> function, markers |-> markers,
     measurements |-> names, axes |-> axis_names, angles |-> angle_names,
     returns_axes |-> ret_axes, returns_angles |-> ret_angles]

ModifyCalls ==
    { Call("modify", Str("pelvis_axis"), <<"RASI", "SACR">>,
           <<"MeanLegLength", "Bogus">>, << >>, << >>, NoneNames, NoneNames),
      Call("modify", Str("pelvis_axis"), <<"RASI">>, << >>, <<"Hip">>, << >>,
           NoneNames, NoneNames),
      Call("modify", Str("pelvis_axis"), <<"RASI", "LASI">>, << >>, << >>, << >>,
           Names(<<"A", "B">>), NoneNames),
      Call("modify", Str("pelvis_axis"),
           <<"RASI", "LASI", "RPSI", "LPSI", "SACR">>, << >>, << >>, << >>,
           Names(<<"Pelvis">>), NoneNames),
      Call("modify", Str("pelvis_axis"), <<"RASI">>, << >>, << >>, << >>,
           Names(<<"A">>), Names(<<"P">>)),
      Call("modify", Str("hip_angle"), << >>, << >>, <<"Hip">>, <<"Pelvis">>,
           NoneNames, NoneNames),
      Call("modify", Str("hip_angle"), << >>, << >>, <<"Hip", "RKnee">>, << >>,
           NoneNames, Names(<<"RHip", "LHip">>)),
      Call("modify", Str("hip_angle"), << >>, << >>, <<"Hip", "RKnee">>, << >>,
           NoneNames, Names(<<"P">>)),
      Call("modify", Str("hip_angle"), << >>, << >>, <<"Hip">>, << >>,
           Names(<<"X">>), NoneNames),
      Call("modify", Str("hip_axis"), << >>, << >>, <<"Pelvis">>, << >>,
           NoneNames, NoneNames),
      Call("modify", Str("no_such_function"), <<"RASI">>, << >>, << >>, << >>,
           Names(<<"A">>), NoneNames),
      Call("modify", Callable("custom_axis"), <<"RASI">>, << >>, << >>, << >>,
           Names(<<"A">>), NoneNames) }

AddCalls ==
    { Call("add", Str("custom_axis"), <<"RASI", "SACR">>, <<"Bogus">>,
           <<"Pelvis">>, << >>, Names(<<"Custom">>), NoneNames),
      Call("add", Callable("custom_axis"), <<"RASI">>, << >>, <<"Pelvis">>,
           << >>, Names(<<"Custom">>), NoneNames),
      Call("add", Str("custom_angle"), << >>, <<"GCS">>, <<"Pelvis">>,
           <<"Pelvis">>, NoneNames, Names(<<"CustomAngle">>)),
      Call("add", Str("custom_axis"), <<"RASI">>, << >>, << >>, << >>,
           Names(<<"Custom">>), Names(<<"CustomAngle">>)),
      Call("add", Callable("custom_angle"), <<"RASI">>, << >>, << >>, << >>,
           Names(<<"Custom">>), Names(<<"CustomAngle">>)),
      Call("add", Str("custom_axis"), <<"RASI">>, << >>, << >>, << >>,
           NoneNames, NoneNames),
      Call("add", Str("pelvis_axis"), <<"RASI">>, << >>, << >>, << >>,
           Names(<<"Pelvis2">>), NoneNames),
      Call("add", Str("custom_axis"), <<"RASI">>, << >>, << >>, << >>,
           Names(<<"C1", "C2">>), NoneNames),
      Call("add", Str("custom_axis"), << >>, << >>, <<"Custom">>, << >>,
           Names(<<"Custom">>), NoneNames),
      Call("add", Str("missing_method"), <<"RASI">>, << >>, << >>, << >>,
           Names(<<"Custom">>), NoneNames) }

\* get parameters: markers, then measurements, then axes, then angles
BindParams(c) ==
    [i \in DOMAIN c.markers |-> Marker(marker_slice(c.markers[i]))]
    \o [i \in DOMAIN c.measurements |->
            Measurement(measurement_value(c.measurements[i]))]
    \o [i \in DOMAIN c.axes |-> Axis(axis_index(c.axes[i]))]
    \o [i \in DOMAIN c.angles |-> Angle(angle_index(c.angles[i]))]

\* number of axes the axis entries before entry index append to axis_results
AxesBefore(index) ==
    SumSeq([k \in 1..index |-> Len(AxisReturn(axis_funcs[k], << >>))])

\* a parameter list with an axis reference to a slot that does not exist
\* yet when before axes have been computed
OrderingHazard(params, before) ==
    \E j \in DOMAIN params :
        /\ params[j].t = "Axis"
        /\ params[j].v[1] # NoneIndex
        /\ params[j].v[1] >= before

\* a modify_function that rejects an axis entry bound to a later axis
ModifyOutcomeCheckingOrder(c) ==
    IF ~c.returns_axes.none /\ ~c.returns_angles.none THEN "exit"
    ELSE IF ~c.function.isstr THEN "exit"
    ELSE IF c.function.name \in DOMAIN axis_func_mapping
            /\ OrderingHazard(BindParams(c),
                              AxesBefore(axis_func_mapping[c.function.name]))
    THEN "exit"
    ELSE IF c.function.name \in DOMAIN axis_func_mapping
            \/ c.function.name \in DOMAIN angle_func_mapping
    THEN (IF c.function.name \in SelfMethods THEN "ok" ELSE "raise")
    ELSE "exit"

\* a modify_function without the "Function not found" exit
ModifyOutcomeNoNotFound(c) ==
    IF ~c.returns_axes.none /\ ~c.returns_angles.none THEN "exit"
    ELSE IF ~c.function.isstr THEN "exit"
    ELSE IF c.function.name \in SelfMethods THEN "ok"
    ELSE IF c.function.name \in DOMAIN axis_func_mapping
            \/ c.function.name \in DOMAIN angle_func_mapping
    THEN "raise"
    ELSE "ok"

\* how a modify_function call ends: "exit" is sys.exit, "raise" is the
\* AttributeError of getattr(self, function)
ModifyOutcome(c) ==
    IF ~c.returns_axes.none /\ ~c.returns_angles.none THEN "exit"
    ELSE IF ~c.function.isstr THEN "exit"
    ELSE IF c.function.name \in DOMAIN axis_func_mapping
            \/ c.function.name \in DOMAIN angle_func_mapping
    THEN (IF c.function.name \in SelfMethods THEN "ok" ELSE "raise")
    ELSE "exit"

\* a modify_function that leaves the per-frame float count as it was
ModifyReturnsAxesStaleFloats(c) ==
    IF c.returns_axes.none
    THEN UNCHANGED << axis_result_mapping, num_axes, axis_mapping,
                      num_axis_floats_per_frame, axis_results_shape >>
    ELSE /\ axis_result_mapping' =
               DictSet(axis_result_mapping, ResultKey(c.function),
                       c.returns_axes.names)
         /\ num_axes' = Len(Concat(DictValues(axis_result_mapping')))
         /\ axis_mapping' = EnumerateMapping(axis_keys)
         /\ UNCHANGED num_axis_floats_per_frame
         /\ axis_results_shape' = << num_frames, num_axes', 4, 4 >>

\* add returned axes, update
ModifyReturnsAxes(c) ==
    IF c.returns_axes.none
    THEN UNCHANGED << axis_result_mapping, num_axes, axis_mapping,
                      num_axis_floats_per_frame, axis_results_shape >>
    ELSE /\ axis_result_mapping' =
               DictSet(axis_result_mapping, ResultKey(c.function),
                       c.returns_axes.names)
         /\ num_axes' = Len(Concat(DictValues(axis_result_mapping')))
         /\ axis_mapping' = EnumerateMapping(axis_keys)
         /\ num_axis_floats_per_frame' = num_axes' * AxisFloats
         /\ axis_results_shape' = << num_frames, num_axes', 4, 4 >>

\* add returned angles, update
ModifyReturnsAngles(c) ==
    IF c.returns_angles.none
    THEN UNCHANGED << angle_result_mapping, num_angles, angle_mapping,
                      num_angle_floats_per_frame, angle_results_shape >>
    ELSE /\ angle_result_mapping' =
               DictSet(angle_result_mapping, ResultKey(c.function),
                       c.returns_angles.names)
         /\ num_angles' = Len(Concat(DictValues(angle_result_mapping')))
         /\ angle_mapping' = EnumerateMapping(angle_keys)
         /\ num_angle_floats_per_frame' = num_angles' * AngleFloats
         /\ angle_results_shape' = << num_frames, num_angles', 3 >>

modify_function(c) ==
    /\ Configuring
    /\ config_calls < MaxConfigCalls
    /\ config_calls' = config_calls + 1
    /\ lastop' = [op |-> "modify", outcome |-> ModifyOutcome(c)]
    /\ lastcall' = c
    /\ calc_trace' = << >>
    /\ IF ModifyOutcome(c) # "ok" THEN UNCHANGED cfgvars
       ELSE /\ IF c.function.name \in DOMAIN axis_func_mapping
               THEN /\ axis_funcs' =
                         ListSet(axis_funcs, axis_func_mapping[c.function.name],
                                 GetAttr(c.function.name))
                    /\ axis_func_parameters' =
                         ListSet(axis_func_parameters,
                                 axis_func_mapping[c.function.name],
                                 BindParams(c))
                    /\ UNCHANGED << angle_funcs, angle_func_parameters >>
               ELSE IF c.function.name \in DOMAIN angle_func_mapping
               THEN /\ angle_funcs' =
                         ListSet(angle_funcs, angle_func_mapping[c.function.name],
                                 GetAttr(c.function.name))
                    /\ angle_func_parameters' =
                         ListSet(angle_func_parameters,
                                 angle_func_mapping[c.function.name],
                                 BindParams(c))
                    /\ UNCHANGED << axis_funcs, axis_func_parameters >>
               ELSE UNCHANGED << axis_funcs, axis_func_parameters,
                                 angle_funcs, angle_func_parameters >>
            /\ ModifyReturnsAxes(c)
            /\ ModifyReturnsAngles(c)
            /\ UNCHANGED << num_frames, axis_keys, angle_keys,
                            axis_func_mapping, angle_func_mapping >>
    /\ UNCHANGED << datavars, resultvars, mrvars >>
    /\ UNCHANGED protovars

\* an add_function without the "not both" exit
AddOutcomeNoBothCheck(c) ==
    IF c.function.isstr /\ c.function.name \notin SelfMethods THEN "raise"
    ELSE IF c.returns_axes.none /\ c.returns_angles.none THEN "exit"
    ELSE "ok"

\* how an add_function call ends: "raise" is the AttributeError of
\* getattr(self, func_name), "exit" is sys.exit
AddOutcome(c) ==
    IF c.function.isstr /\ c.function.name \notin SelfMethods THEN "raise"
    ELSE IF ~c.returns_axes.none /\ ~c.returns_angles.none THEN "exit"
    ELSE IF c.returns_axes.none /\ c.returns_angles.none THEN "exit"
    ELSE "ok"

\* get func object
AddFunc(c) ==
    IF c.function.isstr THEN GetAttr(c.function.name)
    ELSE Func(c.function.name, "ext")

\* extend axes and update
AddReturnsAxes(c) ==
    IF c.returns_axes.none
    THEN UNCHANGED << axis_funcs, axis_func_mapping, axis_func_parameters,
                      axis_result_mapping, axis_keys, num_axes, axis_mapping,
                      num_axis_floats_per_frame, axis_results_shape >>
    ELSE /\ axis_funcs' = Append(axis_funcs, AddFunc(c))
         /\ axis_func_mapping' =
               EnumerateMapping([i \in DOMAIN axis_funcs' |-> axis_funcs'[i].name])
         /\ axis_result_mapping' =
               DictSet(axis_result_mapping, ResultKey(c.function),
                       c.returns_axes.names)
         /\ axis_keys' = axis_keys \o c.returns_axes.names
         /\ num_axes' = Len(Concat(DictValues(axis_result_mapping')))
         /\ axis_mapping' = EnumerateMapping(axis_keys')
         /\ num_axis_floats_per_frame' = num_axes' * AxisFloats
         /\ axis_results_shape' = << num_frames, num_axes', 4, 4 >>
         /\ axis_func_parameters' =
               ListSet(Append(axis_func_parameters, << >>),
                       axis_func_mapping'[c.function.name], BindParams(c))

\* extend angles and update
AddReturnsAngles(c) ==
    IF c.returns_angles.none
    THEN UNCHANGED << angle_funcs, angle_func_mapping, angle_func_parameters,
                      angle_result_mapping, angle_keys, num_angles,
                      angle_mapping, num_angle_floats_per_frame,
                      angle_results_shape >>
    ELSE /\ angle_funcs' = Append(angle_funcs, AddFunc(c))
         /\ angle_func_mapping' =
               EnumerateMapping([i \in DOMAIN angle_funcs' |-> angle_funcs'[i].name])
         /\ angle_result_mapping' =
               DictSet(angle_result_mapping, ResultKey(c.function),
                       c.returns_angles.names)
         /\ angle_keys' = angle_keys \o c.returns_angles.names
         /\ num_angles' = Len(Concat(DictValues(angle_result_mapping')))
         /\ angle_mapping' = EnumerateMapping(angle_keys')
         /\ num_angle_floats_per_frame' = num_angles' * AngleFloats
         /\ angle_results_shape' = << num_frames, num_angles', 3 >>
         /\ angle_func_parameters' =
               ListSet(Append(angle_func_parameters, << >>),
                       angle_func_mapping'[c.function.name], BindParams(c))

add_function(c) ==
    /\ Configuring
    /\ config_calls < MaxConfigCalls
    /\ config_calls' = config_calls + 1
    /\ lastop' = [op |-> "add", outcome |-> AddOutcome(c)]
    /\ lastcall' = c
    /\ calc_trace' = << >>
    /\ IF AddOutcome(c) # "ok" THEN UNCHANGED cfgvars
       ELSE /\ AddReturnsAxes(c)
            /\ AddReturnsAngles(c)
            /\ UNCHANGED num_frames
    /\ UNCHANGED << datavars, resultvars, mrvars >>
    /\ UNCHANGED protovars

----------------------------------------------------------------------------
\* multi_run: the coordinator and its worker processes

\* mp.RawArray('d', n): n zeros
RawArray(n) == [j \in 1..n |-> 0]

\* array_split that drops the remainder rows
ArraySplitSizesEven(total, n) == [i \in 1..n |-> total \div n]

\* lengths of the sections of np.array_split(rows, n): the first
\* (total mod n) sections have one row more than the others
ArraySplitSizes(total, n) ==
    [i \in 1..n |-> (total \div n) + (IF i <= total % n THEN 1 ELSE 0)]

\* np.array_split(rows, n), n >= 1
ArraySplit(rows, n) ==
    LET sizes == ArraySplitSizes(Len(rows), n)
        start(i) == SumSeq(SubSeq(sizes, 1, i - 1))
    IN [i \in 1..n |-> SubSeq(rows, start(i) + 1, start(i) + sizes[i])]

\* number of positions the slice buf[lo:hi] selects
SliceLen(buf, lo, hi) ==
    LET l == IF lo > Len(buf) THEN Len(buf) ELSE lo
        h == IF hi > Len(buf) THEN Len(buf) ELSE hi
    IN IF h > l THEN h - l ELSE 0

\* buf[lo:hi] = flat raises unless flat has the slice's length (or is a
\* single value, which numpy broadcasts)
SliceAssignRaises(buf, lo, hi, flat) ==
    Len(flat) # SliceLen(buf, lo, hi) /\ Len(flat) # 1

SliceAssign(buf, lo, hi, flat) ==
    [j \in DOMAIN buf |->
        IF j > lo /\ j <= hi
        THEN (IF Len(flat) = 1 THEN flat[1] ELSE flat[j - lo])
        ELSE buf[j]]

\* the cores argument left at its default None
NoneCores == -1

\* no measurement has been changed since the constructor read them; the
\* parallel runs of a behaviour come before the owner changes a measurement
MeasurementsAsBound == measurements = StaticMeasurements

\* values of os.cpu_count() on the hosts considered
CpuCounts == {1, 2}

\* a multi_run that starts one worker per CPU
ResolveCoresAllCpus(cores, cpu_count) ==
    IF cores # NoneCores THEN cores ELSE cpu_count

\* nprocs = cores if cores is not None else os.cpu_count() - 1
ResolveCores(cores, cpu_count) ==
    IF cores # NoneCores THEN cores ELSE cpu_count - 1

\* multi_run(cores) on a host with cpu_count CPUs, up to the split of the
\* frames: zero workers make np.array_split raise before any process
\* exists.  lastcall keeps the worker count as cores, the argument as given
\* and, when the count came from it, the CPU count
MultiRunBegin(cores, cpu_count) ==
    /\ Constructed
    /\ mr_pc = "idle"
    /\ MeasurementsAsBound
    /\ cores = NoneCores \/ cpu_count = 1
    /\ lastcall' = [op |-> "multi_run",
                     cores |-> ResolveCores(cores, cpu_count),
                     given |-> cores,
                     cpus |-> IF cores = NoneCores THEN cpu_count ELSE 0,
                     crashed |-> FALSE]
    /\ calc_trace' = << >>
    /\ IF ResolveCores(cores, cpu_count) = 0
       THEN /\ lastop' = [op |-> "multi_run", outcome |-> "raise"]
            /\ UNCHANGED mrvars
       ELSE /\ lastop' = [op |-> "multi_run", outcome |-> "running"]
            /\ shared_axes' = RawArray(num_frames * num_axes * AxisFloats)
            /\ shared_angles' = RawArray(num_frames * num_angles * AngleFloats)
            /\ nprocs' = ResolveCores(cores, cpu_count)
            /\ processes' = << >>
            /\ frame_index_offset' = 0
            /\ joined' = 0
            /\ fresh' = FALSE
            /\ mr_pc' = "start"
    /\ UNCHANGED << cfgvars, datavars, resultvars, config_calls >>
    /\ UNCHANGED protovars

\* one turn of the loop that creates and starts processes[i]
MultiRunStart ==
    /\ mr_pc = "start"
    /\ LET i == Len(processes)
           block == ArraySplit(marker_data, nprocs)[i + 1]
           frame_count == Len(block)
       IN /\ processes' =
                Append(processes,
                       [frames |-> block,
                        index_offset |-> frame_index_offset,
                        index_end |-> frame_index_offset + frame_count,
                        axis_results_size |-> num_axis_floats_per_frame,
                        angle_results_size |-> num_angle_floats_per_frame,
                        state |-> "running"])
          /\ frame_index_offset' = frame_index_offset + frame_count
          /\ mr_pc' = IF i + 1 = nprocs THEN "join" ELSE "start"
    /\ UNCHANGED << nprocs, joined, shared_axes, shared_angles, fresh,
                    cfgvars, datavars, resultvars, config_calls,
                    lastop, lastcall, calc_trace >>
    /\ UNCHANGED protovars

\* run(frames, index_offset, index_end, ...) in worker process i: evaluate
\* the block, then write the two flat results into the shared buffers; an
\* exception ends the process
WorkerRun(i) ==
    /\ i \in DOMAIN processes
    /\ processes[i].state = "running"
    /\ \E r \in {FlatResults(processes[i].frames)} :
       LET p == processes[i]
           alo == p.index_offset * p.axis_results_size
           ahi == p.index_end * p.axis_results_size
           glo == p.index_offset * p.angle_results_size
           ghi == p.index_end * p.angle_results_size
       IN IF ~r.ok \/ SliceAssignRaises(shared_axes, alo, ahi, r.flat_axis_results)
          THEN /\ processes' = [processes EXCEPT ![i].state = "crashed"]
               /\ UNCHANGED << shared_axes, shared_angles >>
          ELSE IF SliceAssignRaises(shared_angles, glo, ghi, r.flat_angle_results)
          THEN /\ processes' = [processes EXCEPT ![i].state = "crashed"]
               /\ shared_axes' = SliceAssign(shared_axes, alo, ahi, r.flat_axis_results)
               /\ UNCHANGED shared_angles
          ELSE /\ processes' = [processes EXCEPT ![i].state = "done"]
               /\ shared_axes' = SliceAssign(shared_axes, alo, ahi, r.flat_axis_results)
               /\ shared_angles' = SliceAssign(shared_angles, glo, ghi, r.flat_angle_results)
    /\ UNCHANGED << mr_pc, nprocs, frame_index_offset, joined, fresh,
                    cfgvars, datavars, resultvars, config_calls,
                    lastop, lastcall, calc_trace >>
    /\ UNCHANGED protovars

\* a join that returns only for a process that ended without an exception
JoinReturnsOnSuccess(p) == p.state = "done"

\* a join that does not wait
JoinReturnsAtOnce(p) == TRUE

\* process.join() returns once the process has ended, however it ended
JoinReturns(p) == p.state \in {"done", "crashed"}

\* one turn of the loop that joins the processes in order
MultiRunJoin ==
    /\ mr_pc = "join"
    /\ JoinReturns(processes[joined + 1])
    /\ joined' = joined + 1
    /\ mr_pc' = IF joined + 1 = Len(processes) THEN "structure" ELSE "join"
    /\ UNCHANGED << nprocs, processes, frame_index_offset, shared_axes,
                    shared_angles, fresh, cfgvars, datavars, resultvars,
                    config_calls, lastop, lastcall, calc_trace >>
    /\ UNCHANGED protovars

\* structure flat axis and angle results; the buffers are locals of
\* multi_run and go away when it returns
MultiRunStructure ==
    /\ mr_pc = "structure"
    /\ IF structure_trial_axes_raises(shared_axes)
       THEN /\ UNCHANGED resultvars
            /\ fresh' = FALSE
            /\ lastop' = [op |-> "multi_run", outcome |-> "raise"]
       ELSE IF structure_trial_angles_raises(shared_angles)
       THEN /\ axes' = structure_trial_axes(shared_axes)
            /\ UNCHANGED angles
            /\ fresh' = FALSE
            /\ lastop' = [op |-> "multi_run", outcome |-> "raise"]
       ELSE /\ axes' = structure_trial_axes(shared_axes)
            /\ angles' = structure_trial_angles(shared_angles)
            /\ fresh' = TRUE
            /\ lastop' = [op |-> "multi_run", outcome |-> "ok"]
    /\ lastcall' = [lastcall EXCEPT !.crashed =
                       \E i \in DOMAIN processes : processes[i].state = "crashed"]
    /\ shared_axes' = << >>
    /\ shared_angles' = << >>
    /\ processes' = << >>
    /\ nprocs' = 0
    /\ frame_index_offset' = 0
    /\ joined' = 0
    /\ mr_pc' = "idle"
    /\ UNCHANGED << cfgvars, datavars, config_calls, calc_trace >>
    /\ UNCHANGED protovars

----------------------------------------------------------------------------
\* Assignments to self.measurements and direct calls of the lookups

\* the changes of a measurement tried: name and new value
MeasurementChanges == { <<"MeanLegLength", 99>> }

\* self.measurements[name] = value, by the owner of the object
SetMeasurement(name, value) ==
    /\ Constructed
    /\ mr_pc = "idle"
    /\ name \in DOMAIN measurements
    /\ measurements[name] # value
    /\ measurements' = [measurements EXCEPT ![name] = value]
    /\ lastop' = [op |-> "set_measurement", outcome |-> "ok"]
    /\ lastcall' = [op |-> "set_measurement", name |-> name, value |-> value,
                     configuring |-> Configuring]
    /\ calc_trace' = << >>
    /\ UNCHANGED << klass, marker_data, marker_keys, marker_mapping,
                    cfgvars, resultvars, mrvars, config_calls >>
    /\ UNCHANGED protovars

\* the lookups tried: each method with a name its table has, or has for
\* some trials, and with a name no table has
LookupCalls ==
    { <<"marker_slice", "RASI">>, <<"marker_slice", "SACR">>,
      <<"marker_slice", "Bogus">>,
      <<"measurement_value", "MeanLegLength">>, <<"measurement_value", "Bogus">>,
      <<"axis_index", "RHipJC">>, <<"axis_index", "Custom">>,
      <<"axis_index", "Bogus">>,
      <<"angle_index", "RHip">>, <<"angle_index", "Bogus">> }

\* what a lookup method returns; the conditional expressions of lines 353,
\* 358, 363 and 368 raise for no name
LookupResult(kind, name) ==
    CASE kind = "marker_slice" -> marker_slice(name)
      [] kind = "measurement_value" -> << measurement_value(name) >>
      [] kind = "axis_index" -> << axis_index(name) >>
      [] OTHER -> << angle_index(name) >>

\* one call of a lookup method while the pipeline is being configured
Lookup(kind, name) ==
    /\ Configuring
    /\ lastop' = [op |-> "lookup", outcome |-> "ok"]
    /\ lastcall' = [op |-> "lookup", kind |-> kind, name |-> name,
                     result |-> LookupResult(kind, name)]
    /\ calc_trace' = << >>
    /\ UNCHANGED << cfgvars, datavars, resultvars, mrvars, config_calls >>
    /\ UNCHANGED protovars

----------------------------------------------------------------------------
Next ==
    \/ \E c \in ModifyCalls : modify_function(c)
    \/ \E c \in AddCalls : add_function(c)
    \/ \E frames \in FrameArgs : run(frames)
    \/ \E f \in 1..num_frames : CalcFrame(f)
    \/ \E cores \in {NoneCores} \cup 0..MaxCores :
          \E cpu_count \in CpuCounts : MultiRunBegin(cores, cpu_count)
    \/ \E c \in MeasurementChanges : SetMeasurement(c[1], c[2])
    \/ \E c \in LookupCalls : Lookup(c[1], c[2])
    \/ MultiRunStart
    \/ \E i \in 1..MaxCores : WorkerRun(i)
    \/ MultiRunJoin
    \/ MultiRunStructure

Spec == Init /\ [][Next]_vars

\* The steps of multi_run alone, on the model as the constructor leaves it.
\* No other operation is enabled while a multi_run is under way, so whether
\* it completes is decided by these steps
MultiRunNext ==
    \/ \E cores \in {NoneCores} \cup 0..MaxCores :
          \E cpu_count \in CpuCounts : MultiRunBegin(cores, cpu_count)
    \/ MultiRunStart
    \/ \E i \in 1..MaxCores : WorkerRun(i)
    \/ MultiRunJoin
    \/ MultiRunStructure

\* The coordinator of multi_run is sequential code that is scheduled: it
\* starts the next process, returns from a join whose process has ended, and
\* structures the buffers.  Nothing makes a worker end: the functions it
\* calls may not return
FairSpec ==
    /\ Init /\ [][MultiRunNext]_vars
    /\ WF_vars(MultiRunStart)
    /\ WF_vars(MultiRunJoin)
    /\ WF_vars(MultiRunStructure)

----------------------------------------------------------------------------
\* The pelvis-only prototype (prototypes/pyCGM/bak_pyCGM_slices.py): one
\* object per subject, its sequential run and its multi_run over blocks of
\* frames, and the SubjectManager that runs whole subjects in parallel

\* number of subjects handed to a SubjectManager
MaxSubjects == 2

\* the marker names of a prototype trial, in the order of a frame's values
BakMarkerKeys == <<"RASI", "LASI", "RPSI", "LPSI", "RANK">>

\* the frames of the trial of the subject numbered id
BakMarkers(id, n) == [f \in 1..n |-> FrameRow(10 * id + f, Len(BakMarkerKeys))]

\* slice(index*3, index*3+3, 1) for every marker name
bak_marker_mapping ==
    [k \in Range(BakMarkerKeys) |->
        <<3 * LastIndex(BakMarkerKeys, k), 3 * LastIndex(BakMarkerKeys, k) + 3>>]

axis_result_keys ==
    <<"Pelvis", "Hip", "Knee", "Ankle", "Foot", "Head", "Thorax", "RClav",
      "LClav", "RHum", "LHum", "RRad", "LRad", "RHand", "LHand">>

\* pyCGM(measurements, markers) of the prototype, for the class cls
bak_init(cls, markers) ==
    [cls |-> cls,
     marker_data |-> markers,
     num_frames |-> Len(markers),
     num_axes |-> Len(axis_result_keys),
     num_floats_per_frame |-> Len(axis_result_keys) * AxisFloats,
     axis_results_shape |-> <<Len(markers), Len(axis_result_keys)>>,
     axis_keys |-> axis_result_keys,
     current_frame |-> 0,
     funcs |-> <<"pelvis_axis">>,
     func_slices |-> << <<bak_marker_mapping["RASI"], bak_marker_mapping["LASI"],
                          bak_marker_mapping["RPSI"], bak_marker_mapping["LPSI"],
                          NoneSlice>> >>,
     result |-> Unset]

\* self.add_function(name, axes=axes)
bak_add_function(self, name, names) ==
    [self EXCEPT !.funcs = Append(@, name),
                 !.func_slices = Append(@, << >>),
                 !.axis_keys = @ \o names,
                 !.num_axes = Len(self.axis_keys \o names),
                 !.num_floats_per_frame = Len(self.axis_keys \o names) * AxisFloats,
                 !.axis_results_shape =
                     <<self.num_frames, Len(self.axis_keys \o names)>>]

\* the keys given to @parameters: oxford_foot names ten markers, of which
\* the first and the last are kept here; the last is written ' RTOE'
DecoratorParams == [oxford_foot |-> <<"RANK", " RTOE">>]

\* the functions a class defines with @parameters
Decorated(cls, name) == cls = "oxfordCGM" /\ name \in DOMAIN DecoratorParams

\* find(key): the marker's slice, else the measurement's value, else None
find(key) ==
    IF key \in DOMAIN bak_marker_mapping THEN Arg("slice", bak_marker_mapping[key])
    ELSE IF key \in DOMAIN StaticMeasurements
         THEN Arg("num", <<StaticMeasurements[key]>>)
    ELSE Arg("none", <<0>>)

\* row[req_slice] if req_slice is a slice, else req_slice
TakeSlice(row, req) ==
    IF req.t = "slice" THEN Arg("vec", SubSeq(row, req.v[1] + 1, req.v[2]))
    ELSE req

\* what the wrapper of @parameters hands to the decorated function: the
\* values found for its keys, the markers taken from the frame numbered
\* self.current_frame of self.marker_data.  The slices found on the first
\* call of a process are the ones every later call finds
set_required_markers(self, name, frame) ==
    [i \in DOMAIN DecoratorParams[name] |->
        TakeSlice(self.marker_data[self.current_frame + 1],
                  find(DecoratorParams[name][i]))]

\* the arguments calc builds for an undecorated function
CalcArgs(self, index, frame) ==
    [i \in DOMAIN self.func_slices[index] |->
        IF self.func_slices[index][i] = NoneSlice THEN Arg("none", <<0>>)
        ELSE TakeSlice(frame, Arg("slice", self.func_slices[index][i]))]

\* the 4x4 result of the function at position index of self.funcs, called
\* by calc for frame: oxford_foot returns zeros whatever it receives
BakFuncResult(self, index, frame) ==
    IF Decorated(self.cls, self.funcs[index])
    THEN [j \in 1..AxisFloats |-> 0]
    ELSE Matrix(Results(Func(self.funcs[index], "prototype"),
                        CalcArgs(self, index, frame), 1)[1])

\* calc(frame): every function is called, the result of the last one is
\* kept and repeated num_axes times
bak_calc(self, frame) ==
    LET result == BakFuncResult(self, Len(self.funcs), frame)
    IN Concat([i \in 1..self.num_axes |-> result])

\* what the decorated functions receive during calc(frame), in call order
BakReceived(self, frame) ==
    LET dec == {i \in DOMAIN self.funcs : Decorated(self.cls, self.funcs[i])}
    IN [i \in dec |-> set_required_markers(self, self.funcs[i], frame)]

\* structure_trial_axes of the prototype: one row per frame, one field per
\* axis name
bak_structure_raises(self, axis_results) ==
    \/ ReshapeRaises(axis_results, self.axis_results_shape, AxisFloats)
    \/ DtypeRaises(self.axis_keys)
    \/ self.num_axes # Len(self.axis_keys)

bak_structure_trial_axes(self, axis_results) ==
    [set |-> TRUE, keys |-> self.axis_keys,
     rows |-> Reshape(axis_results, self.axis_results_shape, AxisFloats)]

\* a subject as the script at the end of the prototype sets it up: an
\* oxfordCGM gets oxford_foot added with the axes 'fake' and 'axes'
BakSubject(cls, id, n) ==
    IF cls = "oxfordCGM"
    THEN bak_add_function(bak_init(cls, BakMarkers(id, n)), "oxford_foot",
                          <<"fake", "axes">>)
    ELSE bak_init(cls, BakMarkers(id, n))

BakClasses == {"pyCGM", "oxfordCGM"}

\* the lists of subjects a SubjectManager is built on
SubjectLists ==
    UNION {[1..m -> BakClasses \X (1..MaxFrames)] : m \in 1..MaxSubjects}

\* pyCGM.SubjectManager(list_of_subjects), the subjects built first
SubjectManager(list) ==
    /\ subject_list = << >>
    /\ p_pc = "idle"
    /\ subject_list' = [i \in DOMAIN list |-> BakSubject(list[i][1], i, list[i][2])]
    /\ p_last' = [op |-> "SubjectManager", outcome |-> "ok"]
    /\ UNCHANGED << p_pc, p_procs, p_shared >>
    /\ UNCHANGED << cfgvars, datavars, resultvars, mrvars,
                    config_calls, lastop, lastcall, calc_trace >>

\* the flat results of the single-core branch of run: calc of every frame
\* of self.marker_data, self.current_frame left as it is
BakFlatResults(self) ==
    Concat([k \in 1..self.num_frames |-> bak_calc(self, self.marker_data[k])])

\* self.result after run() in the process that holds self
BakRunResult(self) == bak_structure_trial_axes(self, BakFlatResults(self))

\* subject_list[s].run(): the single-core branch
bak_run(s) ==
    /\ p_pc = "idle"
    /\ s \in DOMAIN subject_list
    /\ LET self == subject_list[s]
           raises == bak_structure_raises(self, BakFlatResults(self))
       IN /\ subject_list' =
                 IF raises THEN subject_list
                 ELSE [subject_list EXCEPT ![s].result = BakRunResult(self)]
          /\ p_last' = [op |-> "run", subject |-> s,
                        outcome |-> IF raises THEN "raise" ELSE "ok",
                        received |-> [k \in 1..self.num_frames |->
                                         BakReceived(self, self.marker_data[k])]]
    /\ UNCHANGED << p_pc, p_procs, p_shared >>
    /\ UNCHANGED << cfgvars, datavars, resultvars, mrvars,
                    config_calls, lastop, lastcall, calc_trace >>

\* values of os.cpu_count() on the hosts considered for the prototype
BakCpuCounts == {1, 2, 3}

\* subject_list[s].multi_run(cores) up to the start of its processes
bak_multi_run(s, cores, cpu_count) ==
    /\ p_pc = "idle"
    /\ s \in DOMAIN subject_list
    /\ LET self == subject_list[s]
           n == IF cores # NoneCores THEN cores ELSE cpu_count - 1
           marker_data_blocks == ArraySplit(self.marker_data, n)
           offset(i) == SumSeq([j \in 1..(i - 1) |-> Len(marker_data_blocks[j])])
       IN IF n <= 0
          THEN /\ p_last' = [op |-> "multi_run", subject |-> s,
                             outcome |-> "raise", received |-> << >>]
               /\ UNCHANGED << p_pc, p_procs, p_shared >>
          ELSE /\ p_shared' = RawArray(self.num_frames * self.num_axes * AxisFloats)
               /\ p_procs' =
                     [i \in 1..n |->
                         [target |-> "run", subject |-> s,
                          frames |-> marker_data_blocks[i],
                          index_offset |-> offset(i),
                          index_end |-> offset(i) + Len(marker_data_blocks[i]),
                          frame_result_size |-> self.num_floats_per_frame,
                          state |-> "started", received |-> << >>]]
               /\ p_pc' = "frames"
               /\ p_last' = [op |-> "multi_run", subject |-> s,
                             outcome |-> "running", received |-> << >>]
    /\ UNCHANGED subject_list
    /\ UNCHANGED << cfgvars, datavars, resultvars, mrvars,
                    config_calls, lastop, lastcall, calc_trace >>

\* the copy of self a worker of multi_run evaluates its idx-th frame on
WorkerSelf(p, idx) ==
    [subject_list[p.subject] EXCEPT !.current_frame = p.index_offset + idx - 1]

\* process i of multi_run: run(frames, index_offset, index_end,
\* frame_result_size, shared_axes), the shared-memory branch
bak_worker(i) ==
    /\ p_pc = "frames"
    /\ i \in DOMAIN p_procs
    /\ p_procs[i].state = "started"
    /\ LET p == p_procs[i]
           flat_results ==
               Concat([idx \in DOMAIN p.frames |->
                          bak_calc(WorkerSelf(p, idx), p.frames[idx])])
           lo == p.index_offset * p.frame_result_size
           hi == p.index_end * p.frame_result_size
           raises == SliceAssignRaises(p_shared, lo, hi, flat_results)
       IN /\ p_shared' = IF raises THEN p_shared
                         ELSE SliceAssign(p_shared, lo, hi, flat_results)
          /\ p_procs' =
                [p_procs EXCEPT
                    ![i].state = IF raises THEN "crashed" ELSE "done",
                    ![i].received =
                        [idx \in DOMAIN p.frames |->
                            BakReceived(WorkerSelf(p, idx), p.frames[idx])]]
    /\ UNCHANGED << subject_list, p_pc, p_last >>
    /\ UNCHANGED << cfgvars, datavars, resultvars, mrvars,
                    config_calls, lastop, lastcall, calc_trace >>

\* multi_run after its joins: the buffer is structured into self.result
bak_multi_run_end ==
    /\ p_pc = "frames"
    /\ \A i \in DOMAIN p_procs : p_procs[i].state \in {"done", "crashed"}
    /\ LET s == p_last.subject
           self == subject_list[s]
           raises == bak_structure_raises(self, p_shared)
       IN /\ subject_list' =
                 IF raises THEN subject_list
                 ELSE [subject_list EXCEPT
                          ![s].result = bak_structure_trial_axes(self, p_shared)]
          /\ p_last' = [op |-> "multi_run", subject |-> s,
                        outcome |-> IF raises THEN "raise" ELSE "ok",
                        received |-> Concat([i \in DOMAIN p_procs |->
                                                p_procs[i].received])]
    /\ p_pc' = "idle"
    /\ p_procs' = << >>
    /\ p_shared' = << >>
    /\ UNCHANGED << cfgvars, datavars, resultvars, mrvars,
                    config_calls, lastop, lastcall, calc_trace >>

\* the factor of the SubjectManager's buffer size
SharedAxisFloats == 15

\* np.prod(subject.axis_results_shape), the shape being (frames, axes, 4, 4)
ShapeProd(self) ==
    self.axis_results_shape[1] * self.axis_results_shape[2] * AxisFloats

\* the length of the buffer SubjectManager.multi_run allocates: the frames
\* of all subjects summed, times the axes of all subjects summed, times 15
SharedSize(list) ==
    SumSeq([s \in DOMAIN list |-> list[s].num_frames])
    * SumSeq([s \in DOMAIN list |-> list[s].num_axes]) * SharedAxisFloats

\* SubjectManager.multi_run up to the start of its processes
SubjectManager_multi_run(cpu_count) ==
    /\ p_pc = "idle"
    /\ subject_list # << >>
    /\ LET n == cpu_count - 1
           split_subjects_by_core ==
               ArraySplit([s \in DOMAIN subject_list |-> s], n)
           core_float_count(i) ==
               SumSeq([k \in DOMAIN split_subjects_by_core[i] |->
                          ShapeProd(subject_list[split_subjects_by_core[i][k]])])
           start_offset(i) == SumSeq([j \in 1..(i - 1) |-> core_float_count(j)])
       IN IF n <= 0
          THEN /\ p_last' = [op |-> "manager_multi_run", outcome |-> "raise"]
               /\ UNCHANGED << p_pc, p_procs, p_shared >>
          ELSE /\ p_shared' = RawArray(SharedSize(subject_list))
               /\ p_procs' =
                     [i \in 1..n |->
                         [target |-> "run_core_subjects",
                          subjects |-> split_subjects_by_core[i],
                          start_index |-> start_offset(i),
                          end_index |-> start_offset(i) + core_float_count(i),
                          state |-> "started", results |-> << >>]]
               /\ p_pc' = "subjects"
               /\ p_last' = [op |-> "manager_multi_run", outcome |-> "running"]
    /\ UNCHANGED subject_list
    /\ UNCHANGED << cfgvars, datavars, resultvars, mrvars,
                    config_calls, lastop, lastcall, calc_trace >>

\* np.array([[frame[i].flatten()] for i in range(subject.num_axes)
\*           for frame in subject.result]).flatten()
AxisMajor(self, result) ==
    Concat([i \in 1..self.num_axes |->
               Concat([f \in 1..Len(result.rows) |-> result.rows[f][i]])])

\* np.asarray(floats) of arrays of different lengths is not a float array:
\* the worker ends in a ValueError, there or at the slice assignment
Ragged(floats) == \E j, k \in DOMAIN floats : Len(floats[j]) # Len(floats[k])

\* process i of SubjectManager.multi_run: every subject of the core is run
\* and its result flattened, and the floats are written to the buffer
run_core_subjects(i) ==
    /\ p_pc = "subjects"
    /\ i \in DOMAIN p_procs
    /\ p_procs[i].state = "started"
    /\ LET p == p_procs[i]
           ran == [k \in DOMAIN p.subjects |-> BakRunResult(subject_list[p.subjects[k]])]
           floats == [k \in DOMAIN p.subjects |->
                         AxisMajor(subject_list[p.subjects[k]], ran[k])]
           raises ==
               \/ \E k \in DOMAIN p.subjects :
                     bak_structure_raises(subject_list[p.subjects[k]],
                                          BakFlatResults(subject_list[p.subjects[k]]))
               \/ Ragged(floats)
               \/ SliceAssignRaises(p_shared, p.start_index, p.end_index,
                                    Concat(floats))
       IN /\ p_shared' = IF raises THEN p_shared
                         ELSE SliceAssign(p_shared, p.start_index, p.end_index,
                                          Concat(floats))
          /\ p_procs' = [p_procs EXCEPT
                            ![i].state = IF raises THEN "crashed" ELSE "done",
                            ![i].results = ran]
    /\ UNCHANGED << subject_list, p_pc, p_last >>
    /\ UNCHANGED << cfgvars, datavars, resultvars, mrvars,
                    config_calls, lastop, lastcall, calc_trace >>

\* shared_axes[lo:hi], the bounds clipped to the buffer
SliceRead(buf, lo, hi) ==
    SubSeq(buf, (IF lo > Len(buf) THEN Len(buf) ELSE lo) + 1,
                IF hi > Len(buf) THEN Len(buf) ELSE hi)

\* floats_offset when the coordinator comes to subject s
FloatsOffset(list, s) == SumSeq([t \in 1..(s - 1) |-> ShapeProd(list[t])])

\* the floats the coordinator reads for subject s
SubjectFloats(list, buf, s) ==
    SliceRead(buf, FloatsOffset(list, s), FloatsOffset(list, s) + ShapeProd(list[s]))

\* SubjectManager.multi_run after its joins: the results of the subjects are
\* rebuilt from the buffer in list order; the first slice that cannot be
\* reshaped ends the call with a ValueError, the earlier results assigned
SubjectManager_multi_run_end ==
    /\ p_pc = "subjects"
    /\ \A i \in DOMAIN p_procs : p_procs[i].state \in {"done", "crashed"}
    /\ LET raises(s) == bak_structure_raises(subject_list[s],
                                             SubjectFloats(subject_list, p_shared, s))
           reached(s) == \A t \in 1..s : ~raises(t)
       IN /\ subject_list' =
                 [s \in DOMAIN subject_list |->
                     IF reached(s)
                     THEN [subject_list[s] EXCEPT !.result =
                              bak_structure_trial_axes(subject_list[s],
                                  SubjectFloats(subject_list, p_shared, s))]
                     ELSE subject_list[s]]
          /\ p_last' = [op |-> "manager_multi_run",
                        outcome |-> IF \E s \in DOMAIN subject_list : raises(s)
                                    THEN "raise" ELSE "ok",
                        workers |-> [i \in DOMAIN p_procs |-> p_procs[i].state]]
    /\ p_pc' = "idle"
    /\ p_procs' = << >>
    /\ p_shared' = << >>
    /\ UNCHANGED << cfgvars, datavars, resultvars, mrvars,
                    config_calls, lastop, lastcall, calc_trace >>

\* The operations of the prototype, on subjects built by its script
BakNext ==
    \/ \E list \in SubjectLists : SubjectManager(list)
    \/ \E s \in 1..MaxSubjects : bak_run(s)
    \/ \E s \in 1..MaxSubjects : \E cores \in {NoneCores} \cup 0..MaxCores :
          \E cpu_count \in BakCpuCounts : bak_multi_run(s, cores, cpu_count)
    \/ \E i \in 1..MaxCores : bak_worker(i)
    \/ bak_multi_run_end
    \/ \E cpu_count \in BakCpuCounts : SubjectManager_multi_run(cpu_count)
    \/ \E i \in 1..MaxCores : run_core_subjects(i)
    \/ SubjectManager_multi_run_end

\* the engine's model is left as one constructor call builds it
BakInit ==
    /\ Init
    /\ klass = "self"
    /\ num_frames = 1
    /\ Len(marker_keys) = 3

BakSpec == BakInit /\ [][BakNext]_vars

----------------------------------------------------------------------------
\* Properties

\* the pipeline, the registries, the inputs and the results of the model
modelstate == << cfgvars, datavars, resultvars >>

Terminated(p) == p.state \in {"done", "crashed"}

MultiRunEnded ==
    /\ lastop.op = "multi_run"
    /\ lastop.outcome \in {"ok", "raise"}
    /\ lastcall.cores >= 1

\* what the sequential run() does on the model as it is configured
SequentialRun ==
    LET r == FlatResults(marker_data)
        ok == /\ r.ok
              /\ ~structure_trial_axes_raises(r.flat_axis_results)
              /\ ~structure_trial_angles_raises(r.flat_angle_results)
    IN [ok |-> ok,
        axes |-> IF ok THEN structure_trial_axes(r.flat_axis_results) ELSE Unset,
        angles |-> IF ok THEN structure_trial_angles(r.flat_angle_results)
                   ELSE Unset]

\* C1: for every configuration, marker input and worker count >= 1, and
\* under every interleaving of the workers, multi_run ends as the sequential
\* run() ends on the same model: with the same axes and angles, frame by
\* frame and name by name, and with an error where run() ends with an error.
C1_MultiRunEqualsRun ==
    MultiRunEnded =>
        IF SequentialRun.ok
        THEN /\ lastop.outcome = "ok"
             /\ axes = SequentialRun.axes
             /\ angles = SequentialRun.angles
        ELSE lastop.outcome = "raise"

\* C2: the frame ranges [index_offset, index_end) handed to the workers are
\* contiguous, in input order, pairwise disjoint and cover [0, num_frames),
\* each worker gets the frames of its range, and every index of the two
\* shared buffers lies in the write range of exactly one worker; the
\* section lengths of array_split add up to the number of rows for every
\* number of rows from 0 on.
C2_WorkerRangesPartitionFrames ==
    /\ \A i \in DOMAIN processes :
          /\ processes[i].index_offset =
                (IF i = 1 THEN 0 ELSE processes[i - 1].index_end)
          /\ processes[i].index_offset <= processes[i].index_end
          /\ processes[i].frames =
                SubSeq(marker_data, processes[i].index_offset + 1,
                       processes[i].index_end)
    /\ mr_pc \in {"join", "structure"} =>
          /\ Len(processes) = nprocs
          /\ processes[Len(processes)].index_end = num_frames
          /\ \A j \in DOMAIN shared_axes :
                Cardinality({i \in DOMAIN processes :
                    /\ j > processes[i].index_offset * processes[i].axis_results_size
                    /\ j <= processes[i].index_end * processes[i].axis_results_size}) = 1
          /\ \A j \in DOMAIN shared_angles :
                Cardinality({i \in DOMAIN processes :
                    /\ j > processes[i].index_offset * processes[i].angle_results_size
                    /\ j <= processes[i].index_end * processes[i].angle_results_size}) = 1
    /\ \A total \in 0..MaxFrames : \A n \in 1..MaxCores :
          /\ SumSeq(ArraySplitSizes(total, n)) = total
          /\ Len(ArraySplit(FrameRow(1, total), n)) = n

\* all workers of a run with more workers than frames have been started
C2_Witness ==
    /\ mr_pc = "join"
    /\ nprocs > num_frames
    /\ num_frames > 1
    /\ \E i \in DOMAIN processes : processes[i].index_offset = processes[i].index_end

\* C3: if a worker process raises before writing its output range,
\* multi_run ends in a run-level failure and does not assign the results
\* from the shared buffers.
C3_WorkerFailureFailsRun ==
    (MultiRunEnded /\ lastcall.crashed) => (lastop.outcome = "raise" /\ ~fresh)

\* C4: multi_run assigns self.axes and self.angles only in a step taken
\* when every worker process has been started and has terminated, and in no
\* state with a running worker is the result of the current run visible.
C4_ResultsOnlyAfterAllWorkersEnded ==
    [][ /\ (mr_pc # "idle" /\ (fresh' \/ axes' # axes \/ angles' # angles)) =>
            /\ Len(processes) = nprocs
            /\ \A i \in DOMAIN processes : Terminated(processes[i])
        /\ (\E i \in DOMAIN processes' : processes'[i].state = "running") => ~fresh'
      ]_vars

\* a run with several workers has assigned its results
C4_Witness ==
    /\ lastop.op = "multi_run"
    /\ lastop.outcome = "ok"
    /\ lastcall.cores >= 2
    /\ fresh
    /\ axes.set /\ angles.set

\* the entries of the two pipelines in declaration order
DeclarationOrder ==
    [i \in 1..(Len(axis_funcs) + Len(angle_funcs)) |->
        IF i <= Len(axis_funcs)
        THEN [kind |-> "axis", index |-> i - 1, func |-> axis_funcs[i]]
        ELSE [kind |-> "angle", index |-> i - Len(axis_funcs) - 1,
              func |-> angle_funcs[i - Len(axis_funcs)]]]

\* C5: one calc call invokes the axis entries in declaration order and then
\* the angle entries in declaration order, each once, none skipped: the
\* functions it has invoked are a prefix of the declaration order, and all
\* of it when calc returns.
C5_CalcFollowsDeclarationOrder ==
    lastop.op = "calc" =>
        /\ Len(calc_trace) <= Len(DeclarationOrder)
        /\ \A i \in DOMAIN calc_trace :
              /\ calc_trace[i].kind = DeclarationOrder[i].kind
              /\ calc_trace[i].index = DeclarationOrder[i].index
              /\ calc_trace[i].func = DeclarationOrder[i].func
        /\ lastop.outcome = "ok" <=> Len(calc_trace) = Len(DeclarationOrder)

\* calc has returned on a pipeline with an added entry
C5_Witness ==
    /\ lastop.op = "calc"
    /\ lastop.outcome = "ok"
    /\ Len(axis_funcs) + Len(angle_funcs) > Len(default_axis_keys)
    /\ Len(calc_trace) = Len(axis_funcs) + Len(angle_funcs)
    /\ Len(calc_trace) > Len(DefaultAxisResultMapping) + Len(DefaultAngleResultMapping)

\* number of angles the entries before angle entry index have produced
AnglesBefore(index) ==
    SumSeq([k \in 1..index |-> Len(AngleReturn(angle_funcs[k], << >>))])

\* C6: an angle entry's parameter bound as an angle reference with an index
\* below the number of angles already produced in the frame receives that
\* angle of the current frame.
C6_AngleReferencePassesAngleResult ==
    lastop.op = "calc" =>
        \A i \in DOMAIN calc_trace :
            calc_trace[i].kind = "angle" =>
                LET params == angle_func_parameters[calc_trace[i].index + 1]
                IN \A j \in DOMAIN params :
                      (/\ params[j].t = "Angle"
                       /\ params[j].v[1] # NoneIndex
                       /\ params[j].v[1] < AnglesBefore(calc_trace[i].index)) =>
                          calc_trace[i].args[j] =
                             Arg("ang", calc(marker_data[lastcall.frame])
                                           .angle_results[params[j].v[1] + 1])

\* the parameters of the entry a trace element belongs to
TraceParams(t) ==
    IF t.kind = "axis" THEN axis_func_parameters[t.index + 1]
    ELSE angle_func_parameters[t.index + 1]

\* C7: a parameter bound to a marker name that is absent from the marker
\* set is passed to the entry's function as the absent value None at every
\* frame, never as marker data.
C7_AbsentMarkerPassesNone ==
    lastop.op = "calc" =>
        \A i \in DOMAIN calc_trace :
            \A j \in DOMAIN TraceParams(calc_trace[i]) :
                (/\ TraceParams(calc_trace[i])[j].t = "Marker"
                 /\ TraceParams(calc_trace[i])[j].v = NoneSlice) =>
                    calc_trace[i].args[j] = Arg("none", << >>)

\* C8: after any successful add_function and modify_function calls,
\* len(axis_keys) * 16 == num_axis_floats_per_frame and
\* len(angle_keys) * 3 == num_angle_floats_per_frame.
C8_RegistryInvariant ==
    /\ Len(axis_keys) * AxisFloats = num_axis_floats_per_frame
    /\ Len(angle_keys) * AngleFloats = num_angle_floats_per_frame

\* C9: add_function called with both returns_axes and returns_angles, or
\* with neither, fails (with sys.exit when the function resolves) and
\* leaves the whole model state unchanged.
C9_AddBothOrNeitherFailsUnchanged ==
    [][ (/\ lastop'.op = "add"
         /\ lastcall'.returns_axes.none = lastcall'.returns_angles.none) =>
            /\ lastop'.outcome # "ok"
            /\ (~lastcall'.function.isstr \/ lastcall'.function.name \in SelfMethods)
                  => lastop'.outcome = "exit"
            /\ UNCHANGED modelstate
      ]_vars

\* an add_function call with both kinds of output names has failed
C9_Witness ==
    /\ lastop.op = "add"
    /\ lastop.outcome = "exit"
    /\ ~lastcall.returns_axes.none
    /\ ~lastcall.returns_angles.none

\* C10: modify_function fails with sys.exit and leaves the model state
\* unchanged when the function name is in neither function mapping, when
\* both returns_axes and returns_angles are supplied, or when the function
\* is not given as a string.
C10_ModifyBadCallFailsUnchanged ==
    [][ (/\ lastop'.op = "modify"
         /\ \/ lastcall'.function.name \notin
                  (DOMAIN axis_func_mapping \cup DOMAIN angle_func_mapping)
            \/ (~lastcall'.returns_axes.none /\ ~lastcall'.returns_angles.none)
            \/ ~lastcall'.function.isstr) =>
            /\ lastop'.outcome = "exit"
            /\ UNCHANGED modelstate
      ]_vars

\* a modify_function call naming an unknown function has failed
C10_Witness ==
    /\ lastop.op = "modify"
    /\ lastop.outcome = "exit"
    /\ lastcall.function.isstr
    /\ lastcall.returns_angles.none
    /\ lastcall.function.name \notin
          (DOMAIN axis_func_mapping \cup DOMAIN angle_func_mapping)

\* 0-based position of the first field called name in a list of field names
FieldPosition(keys, name) ==
    (CHOOSE i \in DOMAIN keys :
        keys[i] = name /\ \A j \in DOMAIN keys : keys[j] = name => i <= j) - 1

\* the field names of the structured axes and angles, in their order
AxisFields == Concat(DictValues(axis_result_mapping))

AngleFields == Concat(DictValues(angle_result_mapping))

\* names of the functions whose output names differ from the constructor's
ModifiedNames ==
    {axis_result_mapping[i][1][2] : i \in
        {k \in DOMAIN axis_result_mapping :
            \/ k > Len(DefaultAxisResultMapping)
            \/ axis_result_mapping[k] # DefaultAxisResultMapping[k]}}

\* the names the constructor bound the parameters of a trace element's entry to
TraceDefaultNames(t) ==
    IF t.kind = "axis" THEN DefaultAxisFuncParameters[t.index + 1]
    ELSE DefaultAngleFuncParameters[t.index + 1]

\* C11: after a successful modify_function that changed the output names of
\* an entry, with the functions returning as many axes as the names declare,
\* calc passes for every axis reference the constructor bound in another
\* entry the axis at the current position of the reference's name in the
\* axis result order (the axis the structured result shows under that name).
C11_AxisReferencesFollowNames ==
    (/\ lastop.op = "calc"
     /\ lastop.outcome = "ok"
     /\ config_calls = 1
     /\ Len(axis_funcs) = Len(DefaultAxisResultMapping)
     /\ ModifiedNames # {}) =>
        LET c == calc(marker_data[lastcall.frame])
        IN Len(c.axis_results) = num_axes =>
            \A i \in DOMAIN calc_trace :
                calc_trace[i].func.name \notin ModifiedNames =>
                    \A j \in DOMAIN TraceDefaultNames(calc_trace[i]) :
                        LET n == TraceDefaultNames(calc_trace[i])[j]
                        IN (n[1] = "Axis" /\ n[2] \in Range(AxisFields)) =>
                              calc_trace[i].args[j] =
                                 Arg("mat", c.axis_results[
                                               FieldPosition(AxisFields, n[2]) + 1])

\* C12: in every state reachable by add_function and modify_function calls,
\* every field name of the structured axes (angles) has an index,
\* axis_index(name) (angle_index(name)) is the position of the field called
\* name, and no other name has an index.
C12_IndexIsFieldPosition ==
    /\ \A i \in DOMAIN AxisFields :
          axis_index(AxisFields[i]) = FieldPosition(AxisFields, AxisFields[i])
    /\ \A name \in DOMAIN axis_mapping : name \in Range(AxisFields)
    /\ \A i \in DOMAIN AngleFields :
          angle_index(AngleFields[i]) = FieldPosition(AngleFields, AngleFields[i])
    /\ \A name \in DOMAIN angle_mapping : name \in Range(AngleFields)

\* C13: a successful modify_function(name, ...) replaces the function and
\* the parameter list only at the index name has in its pipeline: the
\* lengths of the two function lists and the two parameter lists, the
\* function mappings, and the function and parameters of every other entry
\* stay as they were; the entry at that index gets the parameters bound by
\* the call.
C13_ModifyReplacesInPlace ==
    [][ (lastop'.op = "modify" /\ lastop'.outcome = "ok") =>
          LET name == lastcall'.function.name
          IN /\ Len(axis_funcs') = Len(axis_funcs)
             /\ Len(angle_funcs') = Len(angle_funcs)
             /\ Len(axis_func_parameters') = Len(axis_func_parameters)
             /\ Len(angle_func_parameters') = Len(angle_func_parameters)
             /\ axis_func_mapping' = axis_func_mapping
             /\ angle_func_mapping' = angle_func_mapping
             /\ IF name \in DOMAIN axis_func_mapping
                THEN /\ \A i \in DOMAIN axis_funcs :
                           i # axis_func_mapping[name] + 1 =>
                              /\ axis_funcs'[i] = axis_funcs[i]
                              /\ axis_func_parameters'[i] = axis_func_parameters[i]
                     /\ axis_funcs'[axis_func_mapping[name] + 1].name = name
                     /\ axis_func_parameters'[axis_func_mapping[name] + 1] =
                           BindParams(lastcall')
                     /\ UNCHANGED << angle_funcs, angle_func_parameters >>
                ELSE /\ \A i \in DOMAIN angle_funcs :
                           i # angle_func_mapping[name] + 1 =>
                              /\ angle_funcs'[i] = angle_funcs[i]
                              /\ angle_func_parameters'[i] = angle_func_parameters[i]
                     /\ angle_funcs'[angle_func_mapping[name] + 1].name = name
                     /\ angle_func_parameters'[angle_func_mapping[name] + 1] =
                           BindParams(lastcall')
                     /\ UNCHANGED << axis_funcs, axis_func_parameters >>
      ]_vars

\* a modify_function call has rebound the second angle entry
C13_Witness ==
    /\ lastop.op = "modify"
    /\ lastop.outcome = "ok"
    /\ lastcall.function.name = "hip_angle"
    /\ angle_func_mapping["hip_angle"] = 1
    /\ angle_func_parameters[2] = BindParams(lastcall)
    /\ angle_func_parameters[2] # angle_func_parameters[1]

\* C14: a successful add_function with returns_axes (returns_angles) makes
\* the new function the last entry of the axis (angle) pipeline, stores the
\* bound parameters at that last index, puts the new output names after all
\* existing names, in axis_keys and in the field order of the structured
\* result, and leaves the earlier entries with their output names and the
\* whole other pipeline unchanged.
C14_AddAppendsEntry ==
    [][ (lastop'.op = "add" /\ lastop'.outcome = "ok") =>
          IF ~lastcall'.returns_axes.none
          THEN /\ Len(axis_funcs') = Len(axis_funcs) + 1
               /\ SubSeq(axis_funcs', 1, Len(axis_funcs)) = axis_funcs
               /\ axis_funcs'[Len(axis_funcs')].name = lastcall'.function.name
               /\ axis_func_parameters' =
                     Append(axis_func_parameters, BindParams(lastcall'))
               /\ axis_keys' = axis_keys \o lastcall'.returns_axes.names
               /\ AxisFields' = AxisFields \o lastcall'.returns_axes.names
               /\ SubSeq(axis_result_mapping', 1, Len(axis_result_mapping))
                     = axis_result_mapping
               /\ UNCHANGED << angle_funcs, angle_func_mapping,
                               angle_func_parameters, angle_result_mapping,
                               angle_keys, angle_mapping, num_angles,
                               num_angle_floats_per_frame, angle_results_shape >>
          ELSE /\ Len(angle_funcs') = Len(angle_funcs) + 1
               /\ SubSeq(angle_funcs', 1, Len(angle_funcs)) = angle_funcs
               /\ angle_funcs'[Len(angle_funcs')].name = lastcall'.function.name
               /\ angle_func_parameters' =
                     Append(angle_func_parameters, BindParams(lastcall'))
               /\ angle_keys' = angle_keys \o lastcall'.returns_angles.names
               /\ AngleFields' = AngleFields \o lastcall'.returns_angles.names
               /\ SubSeq(angle_result_mapping', 1, Len(angle_result_mapping))
                     = angle_result_mapping
               /\ UNCHANGED << axis_funcs, axis_func_mapping,
                               axis_func_parameters, axis_result_mapping,
                               axis_keys, axis_mapping, num_axes,
                               num_axis_floats_per_frame, axis_results_shape >>
      ]_vars

\* C15: a run() called right after a run(), with the configuration and the
\* marker data unchanged, ends as the first one ended and leaves self.axes
\* and self.angles as the first one left them.
C15_RunTwiceSameResults ==
    [][ (lastop'.op = "run" /\ lastcall'.again) =>
          /\ lastop'.outcome = lastop.outcome
          /\ axes' = axes
          /\ angles' = angles
      ]_vars

\* run() has been called twice in a row on a trial of several frames
C15_Witness ==
    /\ lastop.op = "run"
    /\ lastop.outcome = "ok"
    /\ lastcall.again
    /\ axes.set /\ angles.set
    /\ Len(axes.rows) >= 2

\* the axes the axis functions a calc call has invoked returned, in order
TraceAxes ==
    Concat([i \in DOMAIN SelectSeq(calc_trace, LAMBDA t : t.kind = "axis") |->
              AxisReturn(calc_trace[i].func, calc_trace[i].args)])

\* the trial with its frames in the order p
PermutedFrames(p) == [f \in 1..Len(marker_data) |-> marker_data[p[f]]]

\* C16: calc(frame) starts from empty result lists: every axis reference it
\* resolves is an axis a function of this same call returned, whatever
\* frames were evaluated before; the rows of a run() are, frame by frame,
\* what calc gives for that frame alone, and run() on the frames in any
\* other order gives the same rows in that order.
C16_FramesAreIsolated ==
    /\ lastop.op = "calc" =>
          \A i \in DOMAIN calc_trace :
              \A j \in DOMAIN TraceParams(calc_trace[i]) :
                  TraceParams(calc_trace[i])[j].t = "Axis" =>
                      calc_trace[i].args[j] =
                         Arg("mat", TraceAxes[TraceParams(calc_trace[i])[j].v[1] + 1])
    /\ (lastop.op = "run" /\ lastop.outcome = "ok") =>
          /\ \A f \in 1..num_frames :
                /\ axes.rows[f] = calc(marker_data[f]).axis_results
                /\ angles.rows[f] = calc(marker_data[f]).angle_results
          /\ \A p \in Permutations(1..num_frames) :
                LET r == FlatResults(PermutedFrames(p))
                IN /\ r.ok
                   /\ ~structure_trial_axes_raises(r.flat_axis_results)
                   /\ ~structure_trial_angles_raises(r.flat_angle_results)
                   /\ structure_trial_axes(r.flat_axis_results).rows =
                         [f \in 1..num_frames |-> axes.rows[p[f]]]
                   /\ structure_trial_angles(r.flat_angle_results).rows =
                         [f \in 1..num_frames |-> angles.rows[p[f]]]

\* run() has evaluated a trial of two frames with different results
C16_Witness ==
    /\ lastop.op = "run"
    /\ lastop.outcome = "ok"
    /\ num_frames >= 2
    /\ axes.rows[1] # axes.rows[2]
    /\ angles.rows[1] # angles.rows[2]

\* C17: a model given a trial with zero frames is constructed without an
\* error, and its run() ends without an error with an empty structured
\* result and the shapes (0, num_axes, 4, 4) and (0, num_angles, 3).
C17_ZeroFramesRuns ==
    Len(marker_data) = 0 =>
        /\ Constructed
        /\ axis_results_shape = << 0, num_axes, 4, 4 >>
        /\ angle_results_shape = << 0, num_angles, 3 >>
        /\ lastop.op = "run" =>
              /\ lastop.outcome = "ok"
              /\ axes.set /\ axes.rows = << >>
              /\ angles.set /\ angles.rows = << >>

\* the constructor of the pelvis-only prototype looks the four pelvis
\* markers up directly (bak_pyCGM_slices.py): an absent one is a KeyError
BakInitRaises(keys) ==
    \E k \in {"RASI", "LASI", "RPSI", "LPSI"} : k \notin Range(keys)

\* twice the local sacrum of pelvis_axis (twice, to stay in the integers):
\* the sum of rpsi and lpsi unless one of them is None, else sacr
pelvis_axis_sacrum(rpsi, lpsi, sacr) ==
    IF rpsi # Arg("none", << >>) /\ lpsi # Arg("none", << >>)
    THEN [t |-> rpsi.t,
          v |-> [k \in DOMAIN rpsi.v |->
                    rpsi.v[k] + (IF k \in DOMAIN lpsi.v THEN lpsi.v[k] ELSE 0)]]
    ELSE [t |-> sacr.t, v |-> [k \in DOMAIN sacr.v |-> 2 * sacr.v[k]]]

\* C18: for a subject without RPSI and LPSI markers and with a SACR marker
\* the model can be constructed, and the pelvis entry, bound as the
\* constructor binds it, computes with the SACR position of the frame as
\* sacrum, which is what a subject whose RPSI/LPSI midpoint is that
\* position computes with.
C18_SacrumMarkerReplacesPosteriorMarkers ==
    (/\ "SACR" \in Range(marker_keys)
     /\ "RPSI" \notin Range(marker_keys)
     /\ "LPSI" \notin Range(marker_keys)
     /\ lastop.op = "calc"
     /\ axis_funcs[1].name = "pelvis_axis"
     /\ Len(axis_func_parameters[1]) = 5
     /\ \A j \in 1..5 : axis_func_parameters[1][j].t = "Marker") =>
        /\ ~BakInitRaises(marker_keys)
        /\ calc_trace # << >>
        /\ LET frame == marker_data[lastcall.frame]
               args == calc_trace[1].args
               sacr == FrameSlice(frame, marker_slice("SACR"))
           IN pelvis_axis_sacrum(args[3], args[4], args[5]) =
                 [t |-> "vec", v |-> [k \in 1..3 |-> 2 * sacr.v[k]]]

\* number of axis names the entries before axis entry index declare
NamesBefore(index) ==
    Len(Concat(DictValues(SubSeq(axis_result_mapping, 1, index))))

\* C19: in a freshly constructed model (no modify_function or add_function
\* call), every axis reference bound in an axis entry has an index that is
\* not None and is smaller than the number of axes the entries before it
\* produce, every axis reference in an angle entry has an index that is not
\* None and is smaller than num_axes, and calc reads no slot that is not
\* yet computed: it returns normally.
C19_FreshModelReferencesComputed ==
    (Constructed /\ config_calls = 0) =>
        /\ \A k \in DOMAIN axis_func_parameters :
              \A j \in DOMAIN axis_func_parameters[k] :
                  axis_func_parameters[k][j].t = "Axis" =>
                      /\ axis_func_parameters[k][j].v[1] # NoneIndex
                      /\ axis_func_parameters[k][j].v[1] >= 0
                      /\ axis_func_parameters[k][j].v[1] < NamesBefore(k - 1)
                      /\ axis_func_parameters[k][j].v[1] < AxesBefore(k - 1)
        /\ \A k \in DOMAIN angle_func_parameters :
              \A j \in DOMAIN angle_func_parameters[k] :
                  angle_func_parameters[k][j].t = "Axis" =>
                      /\ angle_func_parameters[k][j].v[1] # NoneIndex
                      /\ angle_func_parameters[k][j].v[1] >= 0
                      /\ angle_func_parameters[k][j].v[1] < num_axes
        /\ lastop.op = "calc" =>
              /\ lastop.outcome = "ok"
              /\ Len(calc_trace) = Len(axis_funcs) + Len(angle_funcs)

\* calc has returned on a freshly constructed model
C19_Witness ==
    /\ Constructed
    /\ config_calls = 0
    /\ lastop.op = "calc"
    /\ lastop.outcome = "ok"
    /\ Len(calc_trace) = Len(DefaultAxisResultMapping) + Len(DefaultAngleResultMapping)
    /\ \E j \in DOMAIN axis_func_parameters[3] :
          axis_func_parameters[3][j] = Axis(2)

\* a call that names a function the object has, in the way its operation
\* asks for, with output names of one kind; the parameter names play no part
CallWellFormed(c) ==
    IF c.op = "modify"
    THEN /\ c.function.isstr
         /\ c.function.name \in SelfMethods
         /\ c.function.name \in
               (DOMAIN axis_func_mapping \cup DOMAIN angle_func_mapping)
         /\ c.returns_axes.none \/ c.returns_angles.none
    ELSE /\ c.function.isstr => c.function.name \in SelfMethods
         /\ c.returns_axes.none # c.returns_angles.none

\* the axis entries (0-based) whose parameters calc cannot resolve once the
\* entries before them have run
RaisingAxisEntries ==
    {k \in 0..(Len(axis_funcs) - 1) :
        ParamsRaise(axis_func_parameters[k + 1],
                    [i \in 1..AxesBefore(k) |-> 0])}

\* the axis entries (0-based) bound to an axis that is computed later
HazardAxisEntries ==
    {k \in 0..(Len(axis_funcs) - 1) :
        OrderingHazard(axis_func_parameters[k + 1], AxesBefore(k))}

\* C20: modify_function and add_function never reject a call because of
\* the order of the axes its parameters name: a well-formed call succeeds
\* also when it binds an axis entry to an axis with an index >= the number
\* of axes computed before the entry, and the violation shows in calc, which
\* raises on the first such entry without invoking its function.
C20_OrderingNotCheckedUntilCalc ==
    [][ /\ (lastop'.op \in {"modify", "add"} /\ CallWellFormed(lastcall')) =>
              lastop'.outcome = "ok"
        /\ (lastop'.op = "calc" /\ HazardAxisEntries # {}) =>
              /\ lastop'.outcome = "raise"
              /\ Len(calc_trace') \in RaisingAxisEntries
              /\ \A k \in RaisingAxisEntries : Len(calc_trace') <= k
      ]_vars

\* calc has raised on an axis entry a modify_function call bound to an axis
\* that is computed later
C20_Witness ==
    /\ lastop.op = "calc"
    /\ lastop.outcome = "raise"
    /\ config_calls = 1
    /\ Len(axis_funcs) = Len(DefaultAxisResultMapping)
    /\ Len(calc_trace) \in HazardAxisEntries
    /\ axis_func_parameters[Len(calc_trace) + 1] # << >>

\* the output names declared for a function: the names its key has in the
\* result mapping
DeclaredNames(mapping, func) ==
    IF \E i \in DOMAIN mapping : mapping[i][1][2] = func.name
    THEN mapping[CHOOSE i \in DOMAIN mapping : mapping[i][1][2] = func.name][2]
    ELSE << >>

\* every function of the two pipelines returns as many results as it has
\* declared output names
ReturnsAsDeclared ==
    /\ \A k \in DOMAIN axis_funcs :
          Len(AxisReturn(axis_funcs[k], << >>)) =
             Len(DeclaredNames(axis_result_mapping, axis_funcs[k]))
    /\ \A k \in DOMAIN angle_funcs :
          Len(AngleReturn(angle_funcs[k], << >>)) =
             Len(DeclaredNames(angle_result_mapping, angle_funcs[k]))

\* number of output names the axis (angle) entries before entry index declare
AxisNamesBefore(index) ==
    SumSeq([k \in 1..index |->
               Len(DeclaredNames(axis_result_mapping, axis_funcs[k]))])

AngleNamesBefore(index) ==
    SumSeq([k \in 1..index |->
               Len(DeclaredNames(angle_result_mapping, angle_funcs[k]))])

\* C21: in a calc call that returns, a function returning a stack of N
\* results fills N consecutive slots in the stack's order and a function
\* returning a single result fills one slot; when every function returns as
\* many results as it has declared output names, the outputs of entry k start
\* at the number of output names the entries before k declare, and calc
\* returns exactly num_axes axes and num_angles angles.
C21_OutputsFillDeclaredSlots ==
    (lastop.op = "calc" /\ lastop.outcome = "ok") =>
        LET c == calc(marker_data[lastcall.frame])
        IN /\ \A i \in DOMAIN calc_trace :
                LET t == calc_trace[i]
                    n == IF Returns(t.func).stack THEN Returns(t.func).n ELSE 1
                IN IF t.kind = "axis"
                   THEN SubSeq(c.axis_results, AxesBefore(t.index) + 1,
                               AxesBefore(t.index) + n) =
                           [k \in 1..n |->
                               Matrix(Results(t.func, t.args, Returns(t.func).n)[k])]
                   ELSE SubSeq(c.angle_results, AnglesBefore(t.index) + 1,
                               AnglesBefore(t.index) + n) =
                           [k \in 1..n |->
                               Vector(Results(t.func, t.args, Returns(t.func).n)[k])]
           /\ ReturnsAsDeclared =>
                /\ \A k \in DOMAIN axis_funcs :
                      AxesBefore(k - 1) = AxisNamesBefore(k - 1)
                /\ \A k \in DOMAIN angle_funcs :
                      AnglesBefore(k - 1) = AngleNamesBefore(k - 1)
                /\ Len(c.axis_results) = num_axes
                /\ Len(c.angle_results) = num_angles

\* C22: after every successful add_function or modify_function the derived
\* shape metadata is up to date: num_axis_floats_per_frame = num_axes * 16,
\* axis_results_shape = (num_frames, num_axes, 4, 4),
\* num_angle_floats_per_frame = num_angles * 3 and angle_results_shape =
\* (num_frames, num_angles, 3); the two buffers multi_run allocates have
\* num_frames times the per-frame sizes its workers are handed as stride.
C22_ShapeMetadataRecomputed ==
    Constructed =>
        /\ num_axis_floats_per_frame = num_axes * AxisFloats
        /\ axis_results_shape = << num_frames, num_axes, 4, 4 >>
        /\ num_angle_floats_per_frame = num_angles * AngleFloats
        /\ angle_results_shape = << num_frames, num_angles, 3 >>
        /\ mr_pc # "idle" =>
              /\ Len(shared_axes) = num_frames * num_axis_floats_per_frame
              /\ Len(shared_angles) = num_frames * num_angle_floats_per_frame
              /\ \A i \in DOMAIN processes :
                    /\ Len(shared_axes) =
                          num_frames * processes[i].axis_results_size
                    /\ Len(shared_angles) =
                          num_frames * processes[i].angle_results_size

\* multi_run has started its workers on a model whose number of axes a
\* modify_function call has changed
C22_Witness ==
    /\ mr_pc = "join"
    /\ config_calls = 1
    /\ num_axes # Len(default_axis_keys)
    /\ Len(processes) >= 2
    /\ Len(shared_axes) = num_frames * num_axes * AxisFloats
    /\ processes[2].axis_results_size = num_axes * AxisFloats
    /\ Len(axis_funcs) = Len(DefaultAxisResultMapping)

\* the measurement parameters a call binds, with the values the
\* measurements have in the state the call is made in
BoundMeasurements(c) ==
    [i \in DOMAIN c.measurements |->
        Param("Measurement",
              << IF c.measurements[i] \in DOMAIN measurements
                 THEN measurements[c.measurements[i]] ELSE NoneValue >>)]

\* C23: a measurement parameter holds the value the measurement had when its
\* entry was bound.  A successful modify_function or add_function binds the
\* values of the state it is called in; a change of self.measurements changes
\* no parameter list; calc passes for every measurement parameter the value
\* the parameter holds, at every frame, and in a model that was not
\* reconfigured that is the value the constructor read, whatever
\* self.measurements holds by then.
C23_MeasurementBoundAtBinding ==
    [][ /\ (lastop'.op \in {"modify", "add"} /\ lastop'.outcome = "ok") =>
              \E params \in Range(axis_func_parameters')
                               \cup Range(angle_func_parameters') :
                  /\ Len(params) = Len(BindParams(lastcall'))
                  /\ SubSeq(params, Len(lastcall'.markers) + 1,
                            Len(lastcall'.markers) + Len(lastcall'.measurements))
                        = BoundMeasurements(lastcall')
        /\ measurements' # measurements =>
              UNCHANGED << axis_func_parameters, angle_func_parameters >>
        /\ lastop'.op = "calc" =>
              \A i \in DOMAIN calc_trace' :
                  LET t == calc_trace'[i]
                  IN \A j \in DOMAIN TraceParams(t) :
                        TraceParams(t)[j].t = "Measurement" =>
                           /\ t.args[j] = Arg("num", TraceParams(t)[j].v)
                           /\ config_calls = 0 =>
                                 t.args[j] =
                                    Arg("num", << StaticMeasurements[
                                                     TraceDefaultNames(t)[j][2]] >>)
      ]_vars

\* calc has returned on a model with one entry bound before and one entry
\* bound after a change of the same measurement
C23_Witness ==
    /\ lastop.op = "calc"
    /\ lastop.outcome = "ok"
    /\ measurements["MeanLegLength"] # StaticMeasurements["MeanLegLength"]
    /\ axis_func_parameters[2][2] =
          Param("Measurement", << StaticMeasurements["MeanLegLength"] >>)
    /\ \E j \in DOMAIN axis_func_parameters[1] :
          axis_func_parameters[1][j] =
             Param("Measurement", << measurements["MeanLegLength"] >>)
    /\ calc_trace[1].args[3] = Arg("num", << measurements["MeanLegLength"] >>)
    /\ calc_trace[2].args[2] = Arg("num", << StaticMeasurements["MeanLegLength"] >>)

\* C24: a call of marker_slice, measurement_value, axis_index or angle_index
\* never raises; it returns None for a name its table does not have and the
\* stored slice, value or index for a name it has, and it changes nothing of
\* the model.
C24_LookupsAreTotal ==
    [][ lastop'.op = "lookup" =>
          LET name == lastcall'.name
              kind == lastcall'.kind
          IN /\ lastop'.outcome = "ok"
             /\ kind = "marker_slice" =>
                   lastcall'.result =
                      (IF name \in DOMAIN marker_mapping
                       THEN marker_mapping[name] ELSE NoneSlice)
             /\ kind = "measurement_value" =>
                   lastcall'.result =
                      (IF name \in DOMAIN measurements
                       THEN << measurements[name] >> ELSE << NoneValue >>)
             /\ kind = "axis_index" =>
                   lastcall'.result =
                      (IF name \in DOMAIN axis_mapping
                       THEN << axis_mapping[name] >> ELSE << NoneIndex >>)
             /\ kind = "angle_index" =>
                   lastcall'.result =
                      (IF name \in DOMAIN angle_mapping
                       THEN << angle_mapping[name] >> ELSE << NoneIndex >>)
             /\ UNCHANGED modelstate
      ]_vars

\* axis_index has returned None for a name that is no axis, on a model that
\* an add_function call has given a new axis name
C24_Witness ==
    /\ lastop.op = "lookup"
    /\ lastop.outcome = "ok"
    /\ lastcall.kind = "axis_index"
    /\ lastcall.name = "Bogus"
    /\ lastcall.result = << NoneIndex >>
    /\ "Bogus" \notin DOMAIN axis_mapping
    /\ "Custom" \in DOMAIN axis_mapping

\* C25: no step of calc, run or multi_run (the coordinator's steps and the
\* workers' steps) changes the pipeline, the registries, the count and shape
\* attributes, the measurements or the marker data; calc assigns nothing at
\* all, run and multi_run assign only self.axes and self.angles.
C25_EvaluationLeavesPipeline ==
    [][ (lastop'.op \in {"calc", "run", "multi_run"} \/ mr_pc # "idle") =>
          /\ UNCHANGED << axis_funcs, angle_funcs, axis_func_parameters,
                          angle_func_parameters, axis_func_mapping,
                          angle_func_mapping, axis_result_mapping,
                          angle_result_mapping, axis_keys, angle_keys,
                          axis_mapping, angle_mapping >>
          /\ UNCHANGED << num_frames, num_axes, num_axis_floats_per_frame,
                          axis_results_shape, num_angles,
                          num_angle_floats_per_frame, angle_results_shape >>
          /\ UNCHANGED << klass, measurements, marker_data, marker_keys,
                          marker_mapping >>
          /\ lastop'.op = "calc" => UNCHANGED << axes, angles >>
          /\ (axes' # axes \/ angles' # angles) =>
                \/ lastop'.op = "run"
                \/ lastop'.op = "multi_run" /\ mr_pc = "structure"
      ]_vars

\* run() has assigned the results of a pipeline that add_function extended
C25_Witness ==
    /\ lastop.op = "run"
    /\ lastop.outcome = "ok"
    /\ axes.set /\ angles.set
    /\ config_calls = 1
    /\ Len(axis_funcs) = Len(DefaultAxisResultMapping) + 1
    /\ Len(axes.keys) = Len(default_axis_keys) + 1
    /\ marker_data = [f \in 1..num_frames |-> FrameRow(f, Len(marker_keys))]

\* every process of the current multi_run has been started and has ended
AllWorkersEnded ==
    /\ mr_pc \in {"join", "structure"}
    /\ \A i \in DOMAIN processes : Terminated(processes[i])

\* C26: once every worker process of a multi_run has ended (normally or
\* with an exception), the run goes on to the state in which self.axes and
\* self.angles are assigned; it leaves the joins and returns only in a step
\* taken when every worker has been started and has ended, so a run with a
\* worker that never ends never completes: there is no timeout and no
\* cancellation.
C26_CompletesIffWorkersEnd ==
    /\ [][ /\ (mr_pc = "join" /\ mr_pc' = "structure") =>
                \A i \in DOMAIN processes : Terminated(processes[i])
           /\ (mr_pc # "idle" /\ mr_pc' = "idle") =>
                /\ Len(processes) = nprocs
                /\ \A i \in DOMAIN processes : Terminated(processes[i])
           /\ (mr_pc # "idle" /\ lastop'.outcome # "running") =>
                mr_pc = "structure"
         ]_vars
    /\ (mr_pc = "start") ~> (mr_pc = "join")
    /\ AllWorkersEnded ~>
          (mr_pc = "idle" /\ lastop.op = "multi_run" /\ fresh
             /\ axes.set /\ angles.set)

\* a multi_run one of whose workers ended with an exception has completed
C26_Witness ==
    /\ mr_pc = "idle"
    /\ lastop.op = "multi_run"
    /\ lastop.outcome = "ok"
    /\ lastcall.cores >= 2
    /\ lastcall.crashed
    /\ axes.set /\ angles.set

\* C27: run(frames=F) without shared buffers evaluates the frames of F, in
\* order, and structures the results of those frames: self.axes and
\* self.angles have one row per frame of F, the row calc gives for it.
C27_RunEvaluatesGivenFrames ==
    (lastop.op = "run" /\ lastop.outcome = "ok" /\ ~lastcall.frames.none) =>
        LET F == lastcall.frames.rows
        IN /\ axes.rows = [f \in 1..Len(F) |-> calc(F[f]).axis_results]
           /\ angles.rows = [f \in 1..Len(F) |-> calc(F[f]).angle_results]

\* number of axes (angles) the axis (angle) pipeline appends in one calc
AxesProduced == AxesBefore(Len(axis_funcs))

AnglesProduced == AnglesBefore(Len(angle_funcs))

\* the call supplies as many output names as its function returns results
NamesMatchReturns(c) ==
    /\ ~c.returns_axes.none =>
          Len(c.returns_axes.names) = Returns(GetAttr(c.function.name)).n
    /\ ~c.returns_angles.none =>
          Len(c.returns_angles.names) = Returns(GetAttr(c.function.name)).n

\* C28: a successful modify_function registers output names supplied for a
\* function of the axis pipeline only as axis names and output names
\* supplied for a function of the angle pipeline only as angle names; when
\* the names supplied are as many as the function returns, num_axes and
\* num_angles stay the numbers of results the two pipelines produce per
\* frame.
C28_ModifyKeepsEntryKind ==
    [][ (lastop'.op = "modify" /\ lastop'.outcome = "ok") =>
          LET name == lastcall'.function.name
          IN /\ name \in DOMAIN axis_func_mapping =>
                   UNCHANGED << angle_result_mapping, num_angles >>
             /\ name \notin DOMAIN axis_func_mapping =>
                   UNCHANGED << axis_result_mapping, num_axes >>
             /\ (/\ num_axes = AxesProduced
                 /\ num_angles = AnglesProduced
                 /\ NamesMatchReturns(lastcall')) =>
                   /\ num_axes' = AxesProduced'
                   /\ num_angles' = AnglesProduced'
      ]_vars

\* C29: a successful add_function with returns_axes = R increases num_axes
\* and len(axis_keys) by len(R) each, and one with returns_angles = R
\* increases num_angles and len(angle_keys) by len(R) each, whatever the
\* function is, also when its name or object is already a key of the result
\* mapping.
C29_AddGrowsCountsByNames ==
    [][ (lastop'.op = "add" /\ lastop'.outcome = "ok") =>
          IF ~lastcall'.returns_axes.none
          THEN /\ num_axes' = num_axes + Len(lastcall'.returns_axes.names)
               /\ Len(axis_keys') =
                     Len(axis_keys) + Len(lastcall'.returns_axes.names)
          ELSE /\ num_angles' = num_angles + Len(lastcall'.returns_angles.names)
               /\ Len(angle_keys') =
                     Len(angle_keys) + Len(lastcall'.returns_angles.names)
      ]_vars

\* C30: multi_run resolves its worker count as cores, or as cpu_count - 1
\* when cores is None.  A count of 0 (cores = 0, or cores = None on a host
\* with one CPU) ends the call with an error before any worker process
\* exists and leaves self.axes and self.angles as they were; any other count
\* n starts exactly n workers.
C30_WorkerCountAtLeastOne ==
    [][ /\ (mr_pc = "idle" /\ lastop'.op = "multi_run") =>
              LET n == IF lastcall'.given = NoneCores
                       THEN lastcall'.cpus - 1 ELSE lastcall'.given
              IN /\ lastcall'.cores = n
                 /\ IF n = 0
                    THEN /\ lastop'.outcome = "raise"
                         /\ mr_pc' = "idle"
                         /\ processes' = << >>
                         /\ UNCHANGED << axes, angles >>
                    ELSE /\ lastop'.outcome = "running"
                         /\ mr_pc' = "start"
                         /\ nprocs' = n
                         /\ processes' = << >>
        /\ mr_pc' # "idle" => nprocs' >= 1
        /\ mr_pc' \in {"join", "structure"} => Len(processes') = lastcall'.cores
      ]_vars

\* multi_run() has failed on a host with one CPU, with no worker started
C30_Witness ==
    /\ lastop.op = "multi_run"
    /\ lastop.outcome = "raise"
    /\ lastcall.given = NoneCores
    /\ lastcall.cpus = 1
    /\ lastcall.cores = 0
    /\ mr_pc = "idle"
    /\ processes = << >>
    /\ ~axes.set /\ ~angles.set

\* the values a function decorated with @parameters is due for frame k
\* (1-based): the values found for its keys, the markers taken from frame k
DueToDecorated(self, name, k) ==
    [i \in DOMAIN DecoratorParams[name] |->
        TakeSlice(self.marker_data[k], find(DecoratorParams[name][i]))]

\* received lists, frame by frame, what the decorated functions of self got:
\* each got the marker vectors of the frame it was evaluated for
ReceivedOwnFrames(self, received, first) ==
    \A k \in DOMAIN received : \A i \in DOMAIN received[k] :
        received[k][i] = DueToDecorated(self, self.funcs[i], first + k)

\* C31: in the prototype a function decorated with @parameters that is
\* evaluated for frame k receives the marker vectors of frame k, in the
\* sequential run() and in every worker of multi_run(), and a completed
\* multi_run() leaves the per-frame result a sequential run() computes
C31_DecoratedGetsItsFrame ==
    /\ p_last.op = "run" =>
          ReceivedOwnFrames(subject_list[p_last.subject], p_last.received, 0)
    /\ p_pc = "frames" =>
          \A i \in DOMAIN p_procs :
              ReceivedOwnFrames(subject_list[p_procs[i].subject],
                                p_procs[i].received, p_procs[i].index_offset)
    /\ p_last.op = "multi_run" /\ p_last.outcome = "ok" =>
          subject_list[p_last.subject].result
              = BakRunResult(subject_list[p_last.subject])

\* the floats of the results of all subjects: num_frames * num_axes * 16 each
FloatsNeeded(list) == SumSeq([s \in DOMAIN list |-> ShapeProd(list[s])])

\* C32: in the prototype's SubjectManager.multi_run the shared buffer has at
\* least as many floats as the results of all subjects take together, so
\* the range [start_index, end_index) of every worker and the slice the
\* coordinator reads for every subject lie inside the buffer
C32_BufferHoldsAllSubjects ==
    p_pc = "subjects" =>
        /\ Len(p_shared) >= FloatsNeeded(subject_list)
        /\ \A i \in DOMAIN p_procs :
              /\ 0 <= p_procs[i].start_index
              /\ p_procs[i].start_index <= p_procs[i].end_index
              /\ p_procs[i].end_index <= Len(p_shared)
        /\ \A s \in DOMAIN subject_list :
              FloatsOffset(subject_list, s) + ShapeProd(subject_list[s])
                  <= Len(p_shared)

\* SubjectManager.multi_run has returned and none of its workers failed
ManagerRunCompleted ==
    /\ p_last.op = "manager_multi_run"
    /\ p_last.outcome = "ok"
    /\ \A i \in DOMAIN p_last.workers : p_last.workers[i] = "done"

\* C33: in the prototype's SubjectManager the flat layout a worker writes
\* for a subject is the layout the coordinator reads back: after a
\* multi_run, for every subject, frame f and axis a the rebuilt
\* subject.result[f][a] is the value subject.run() computes for frame f and
\* axis a
C33_ReadBackIsWhatRunComputed ==
    ManagerRunCompleted =>
        \A s \in DOMAIN subject_list :
            /\ subject_list[s].result.set
            /\ \A f \in 1..subject_list[s].num_frames :
               \A a \in 1..subject_list[s].num_axes :
                   subject_list[s].result.rows[f][a]
                       = BakRunResult(subject_list[s]).rows[f][a]

====
